---- MODULE Spec2Model ----
(***************************************************************************)
(* A model of the forward HTTP proxy: the per-connection routine           *)
(* (Server.handleConnection) with the request parser, the block-list       *)
(* filter and the forwarder it calls, and the connection lifecycle         *)
(* (Server.Start, Server.Shutdown, WorkerPool, main).                      *)
(*                                                                         *)
(* Text (request lines, header lines, hosts, tokens) is a sequence of      *)
(* one-character strings, so that splitting, trimming, case folding and    *)
(* suffix matching are computed the way the Go code computes them.         *)
(***************************************************************************)
EXTENDS Integers, Sequences, FiniteSets, TLC

\* ------------------------------------------------------------------ bounds

\* Connections the listener hands out in one run of the server.
MaxConns == 2

\* Largest thread_pool_size the configurations of the lifecycle model use.
MaxPoolSize == 1

\* ------------------------------------------------------- program constants

\* readBody: the 10MB limit on Content-Length.
MaxBodyBytes == 10485760

\* ------------------------------------------------------------ text helpers

LowerChars == <<"a","b","c","d","e","f","g","h","i","j","k","l","m",
                "n","o","p","q","r","s","t","u","v","w","x","y","z">>

UpperChars == <<"A","B","C","D","E","F","G","H","I","J","K","L","M",
                "N","O","P","Q","R","S","T","U","V","W","X","Y","Z">>

DigitChars == <<"0","1","2","3","4","5","6","7","8","9">>

\* strings.ToLower / strings.ToUpper, one byte at a time.
ToLowerCh(c) ==
    IF \E i \in 1..26 : UpperChars[i] = c
    THEN LowerChars[CHOOSE i \in 1..26 : UpperChars[i] = c]
    ELSE c

ToUpperCh(c) ==
    IF \E i \in 1..26 : LowerChars[i] = c
    THEN UpperChars[CHOOSE i \in 1..26 : LowerChars[i] = c]
    ELSE c

ToLower(s) == [i \in 1..Len(s) |-> ToLowerCh(s[i])]

ToUpper(s) == [i \in 1..Len(s) |-> ToUpperCh(s[i])]

IsSpaceCh(c) == c \in {" ", "\t", "\r", "\n"}

\* strings.TrimSpace
TrimSpace(s) ==
    IF \A i \in 1..Len(s) : IsSpaceCh(s[i])
    THEN << >>
    ELSE LET first == CHOOSE i \in 1..Len(s) :
                          /\ ~IsSpaceCh(s[i])
                          /\ \A j \in 1..(i-1) : IsSpaceCh(s[j])
             last  == CHOOSE i \in 1..Len(s) :
                          /\ ~IsSpaceCh(s[i])
                          /\ \A j \in (i+1)..Len(s) : IsSpaceCh(s[j])
         IN  SubSeq(s, first, last)

\* strings.HasPrefix / strings.HasSuffix
HasPrefix(s, p) == Len(p) <= Len(s) /\ SubSeq(s, 1, Len(p)) = p

HasSuffix(s, p) == Len(p) <= Len(s) /\ SubSeq(s, Len(s) - Len(p) + 1, Len(s)) = p

\* strings.Index for a one-byte separator: 0 when absent (Go: -1), else the
\* 1-based position of the first occurrence.
IndexCh(s, c) ==
    IF \E i \in 1..Len(s) : s[i] = c
    THEN CHOOSE i \in 1..Len(s) : s[i] = c /\ \A j \in 1..(i-1) : s[j] # c
    ELSE 0

\* strings.LastIndex for a one-byte separator.
LastIndexCh(s, c) ==
    IF \E i \in 1..Len(s) : s[i] = c
    THEN CHOOSE i \in 1..Len(s) : s[i] = c /\ \A j \in (i+1)..Len(s) : s[j] # c
    ELSE 0

\* strings.SplitN(s, sep, n) for a one-byte separator and n >= 1.
RECURSIVE SplitN(_, _, _)
SplitN(s, c, n) ==
    IF n <= 1 \/ IndexCh(s, c) = 0
    THEN << s >>
    ELSE LET i == IndexCh(s, c)
         IN  << SubSeq(s, 1, i - 1) >> \o SplitN(SubSeq(s, i + 1, Len(s)), c, n - 1)

DigitVal(c) == (CHOOSE i \in 1..10 : DigitChars[i] = c) - 1

IsDigitCh(c) == \E i \in 1..10 : DigitChars[i] = c

RECURSIVE DigitsVal(_)
DigitsVal(s) ==
    IF s = << >> THEN 0
    ELSE 10 * DigitsVal(SubSeq(s, 1, Len(s) - 1)) + DigitVal(s[Len(s)])

\* strconv.Atoi: an optional sign, then one or more decimal digits; anything
\* else is an error. (Values here stay far below the int range.)
Atoi(s) ==
    LET signed == Len(s) > 0 /\ s[1] \in {"+", "-"}
        digits == IF signed THEN SubSeq(s, 2, Len(s)) ELSE s
    IN  IF digits = << >> \/ \E i \in 1..Len(digits) : ~IsDigitCh(digits[i])
        THEN [ok |-> FALSE, val |-> 0]
        ELSE [ok |-> TRUE,
              val |-> IF signed /\ s[1] = "-" THEN 0 - DigitsVal(digits)
                      ELSE DigitsVal(digits)]

\* strings.TrimRight(s, "\r\n")
RECURSIVE TrimRightCRLF(_)
TrimRightCRLF(s) ==
    IF s # << >> /\ s[Len(s)] \in {"\r", "\n"}
    THEN TrimRightCRLF(SubSeq(s, 1, Len(s) - 1))
    ELSE s

\* ------------------------------------------------------------------ parser

\* What a client puts on the wire, as the parser's bufio.Reader delivers it:
\*   hasLine      a '\n'-terminated first line arrives (else the read fails)
\*   reqLine      that line, without its '\n'
\*   headerLines  the lines that follow, up to the blank line (each without '\n')
\*   terminated   the blank line arrives (else the header read fails)
\*   bodyAvail    bytes that arrive after the blank line

ParseFail(why) == [ok |-> FALSE, err |-> why]

\* ParseHTTPRequest, header loop: the lowercased, trimmed name before the
\* first ':' and the trimmed value after it.
HeaderKey(line) == TrimSpace(ToLower(SubSeq(line, 1, IndexCh(line, ":") - 1)))

HeaderValue(line) == TrimSpace(SubSeq(line, IndexCh(line, ":") + 1, Len(line)))

\* req.Headers after the header loop: lines without ':' are skipped, a later
\* line with the same key overwrites an earlier one.
ParseHeaders(lines) ==
    LET trimmed == [i \in 1..Len(lines) |-> TrimRightCRLF(lines[i])]
        valid   == {i \in 1..Len(lines) : IndexCh(trimmed[i], ":") > 0}
        keys    == {HeaderKey(trimmed[i]) : i \in valid}
        lastOf(k) == CHOOSE i \in valid :
                        /\ HeaderKey(trimmed[i]) = k
                        /\ \A j \in valid : HeaderKey(trimmed[j]) = k => j <= i
    IN  [k \in keys |-> HeaderValue(trimmed[lastOf(k)])]

\* A Go map read: the zero value "" for a missing key.
HeaderGet(headers, k) == IF k \in DOMAIN headers THEN headers[k] ELSE << >>

SchemeHTTP == <<"h","t","t","p",":","/","/">>

SchemeHTTPS == <<"h","t","t","p","s",":","/","/">>

IsAbsoluteForm(target) == HasPrefix(target, SchemeHTTP) \/ HasPrefix(target, SchemeHTTPS)

\* url.Parse on an absolute http(s) target, as far as the proxy reads it:
\* the authority runs to the first '/' or '?', the path to the first '?',
\* the rest is RawQuery; a port is what follows the last ':' of the
\* authority and must be all digits (url.Parse rejects anything else).
\* Userinfo, IPv6 brackets and fragments are not modelled.
UrlParse(target) ==
    LET rest    == IF HasPrefix(target, SchemeHTTPS)
                   THEN SubSeq(target, Len(SchemeHTTPS) + 1, Len(target))
                   ELSE SubSeq(target, Len(SchemeHTTP) + 1, Len(target))
        stops   == {i \in 1..Len(rest) : rest[i] \in {"/", "?"}}
        aEnd    == IF stops = {} THEN Len(rest) + 1
                   ELSE CHOOSE i \in stops : \A j \in stops : i <= j
        auth    == SubSeq(rest, 1, aEnd - 1)
        tail    == SubSeq(rest, aEnd, Len(rest))
        q       == IndexCh(tail, "?")
        path    == IF q = 0 THEN tail ELSE SubSeq(tail, 1, q - 1)
        query   == IF q = 0 THEN << >> ELSE SubSeq(tail, q + 1, Len(tail))
        colon   == LastIndexCh(auth, ":")
        host    == IF colon = 0 THEN auth ELSE SubSeq(auth, 1, colon - 1)
        port    == IF colon = 0 THEN << >> ELSE SubSeq(auth, colon + 1, Len(auth))
    IN  [ok       |-> \A i \in 1..Len(port) : IsDigitCh(port[i]),
         Hostname |-> host,
         Port     |-> port,
         Path     |-> path,
         RawQuery |-> query]

\* HTTPRequest.extractHostAndPort
ExtractHostAndPort(target, headers) ==
    IF IsAbsoluteForm(target)
    THEN LET u == UrlParse(target)
         IN  IF ~u.ok THEN ParseFail("failed to parse absolute URI")
             ELSE IF u.Port = << >>
             THEN [ok |-> TRUE, Host |-> u.Hostname,
                   Port |-> IF HasPrefix(target, SchemeHTTPS) THEN 443 ELSE 80]
             ELSE IF ~Atoi(u.Port).ok THEN ParseFail("invalid port in URI")
             ELSE [ok |-> TRUE, Host |-> u.Hostname, Port |-> Atoi(u.Port).val]
    ELSE IF <<"h","o","s","t">> \notin DOMAIN headers
    THEN ParseFail("missing Host header")
    ELSE LET hostPort == SplitN(headers[<<"h","o","s","t">>], ":", 2)
         IN  IF Len(hostPort) = 2
             THEN IF ~Atoi(hostPort[2]).ok
                  THEN ParseFail("invalid port in Host header")
                  ELSE [ok |-> TRUE, Host |-> hostPort[1], Port |-> Atoi(hostPort[2]).val]
             ELSE [ok |-> TRUE, Host |-> hostPort[1], Port |-> 80]

ContentLengthKey == <<"c","o","n","t","e","n","t","-","l","e","n","g","t","h">>

\* HTTPRequest.readBody: the number of body bytes read.
ReadBody(headers, bodyAvail) ==
    IF ContentLengthKey \notin DOMAIN headers
    THEN [ok |-> TRUE, BodyLen |-> 0]
    ELSE LET n == Atoi(headers[ContentLengthKey])
         IN  IF ~n.ok THEN ParseFail("invalid Content-Length")
             ELSE IF n.val < 0 THEN ParseFail("negative Content-Length")
             ELSE IF n.val > MaxBodyBytes THEN ParseFail("Content-Length too large")
             ELSE IF bodyAvail < n.val THEN ParseFail("failed to read body")
             ELSE [ok |-> TRUE, BodyLen |-> n.val]

MethodCONNECT == <<"C","O","N","N","E","C","T">>

MethodGET == <<"G","E","T">>

\* ParseHTTPRequest
ParseHTTPRequest(raw) ==
    IF ~raw.hasLine THEN ParseFail("failed to read request line")
    ELSE
    LET parts == SplitN(TrimRightCRLF(raw.reqLine), " ", 3)
    IN  IF Len(parts) # 3 THEN ParseFail("invalid request line")
        ELSE
        LET method == ToUpper(parts[1])
            target == parts[2]
            req    == [ok |-> TRUE, Method |-> method, RequestTarget |-> target,
                       Version |-> parts[3], Headers |-> << >>, BodyLen |-> 0,
                       Host |-> << >>, Port |-> 0, IsConnect |-> FALSE]
        IN  IF method = MethodCONNECT
            THEN LET hostPort == SplitN(target, ":", 2)
                 IN  IF Len(hostPort) # 2 THEN ParseFail("invalid CONNECT target")
                     ELSE IF ~Atoi(hostPort[2]).ok THEN ParseFail("invalid port in CONNECT")
                     ELSE [req EXCEPT !.IsConnect = TRUE, !.Host = hostPort[1],
                                      !.Port = Atoi(hostPort[2]).val]
            ELSE IF ~raw.terminated THEN ParseFail("failed to read headers")
            ELSE
            LET headers == ParseHeaders(raw.headerLines)
                hp      == ExtractHostAndPort(target, headers)
                body    == ReadBody(headers, raw.bodyAvail)
            IN  IF ~hp.ok THEN hp
                ELSE IF ~body.ok THEN body
                ELSE [req EXCEPT !.Headers = headers, !.Host = hp.Host,
                                 !.Port = hp.Port, !.BodyLen = body.BodyLen]

\* ------------------------------------------------------------------ filter

WildcardPrefix == <<"*", ".">>

\* The wildcard test without the dot boundary: any host that ends with the
\* text after "*." passes.
WildcardMatchesNoDot(domain, host) ==
    /\ HasPrefix(domain, WildcardPrefix)
    /\ HasSuffix(host, SubSeq(domain, 3, Len(domain)))

\* The test of IsBlocked's loop over blockedDomains: the rule starts with
\* "*." and the host is the rest of the rule or ends with "." and the rest.
WildcardMatches(domain, host) ==
    /\ HasPrefix(domain, WildcardPrefix)
    /\ LET suffix == SubSeq(domain, 3, Len(domain))
       IN  HasSuffix(host, <<".">> \o suffix) \/ host = suffix

\* net.ParseIP for dotted-decimal text: four fields of one to three digits,
\* none above 255 and none with a leading zero. (No rule of the model holds
\* a ':', so the IPv6 forms never apply.)
ParseIP(s) ==
    LET fields == SplitN(s, ".", 5)
    IN  /\ Len(fields) = 4
        /\ \A i \in 1..4 :
              /\ Len(fields[i]) \in 1..3
              /\ \A j \in 1..Len(fields[i]) : IsDigitCh(fields[i][j])
              /\ DigitsVal(fields[i]) <= 255
              /\ Len(fields[i]) > 1 => fields[i][1] # "0"

\* LoadRules, one scanned line: skipped when it is empty or a comment, else
\* the rule it stores (inline comment cut off, trimmed, lowercased).
RuleOfLine(text) ==
    LET line == TrimSpace(text)
    IN  IF line = << >> \/ HasPrefix(line, <<"#">>)
        THEN [skip |-> TRUE, rule |-> << >>]
        ELSE LET idx == IndexCh(line, "#")
                 cut == IF idx > 0 THEN TrimSpace(SubSeq(line, 1, idx - 1)) ELSE line
             IN  [skip |-> FALSE, rule |-> ToLower(TrimSpace(cut))]

\* What is at the path LoadRules is given:
\*   exists    os.Open does not fail with a not-exist error
\*   readable  os.Open succeeds
\*   lines     the lines the scanner returns
\*   readErr   the scanner stops after them with an error
\* Filter.LoadRules on the maps (domains, ips): the maps afterwards and
\* whether an error is returned. A missing file returns nil and an open
\* error returns the error, both before the maps are replaced.
LoadRules(domains, ips, file) ==
    IF ~file.exists
    THEN [domains |-> domains, ips |-> ips, err |-> FALSE]
    ELSE IF ~file.readable
    THEN [domains |-> domains, ips |-> ips, err |-> TRUE]
    ELSE LET rules == { RuleOfLine(file.lines[i]).rule :
                          i \in { j \in 1..Len(file.lines) :
                                    ~RuleOfLine(file.lines[j]).skip } }
         IN  [domains |-> { r \in rules : ~ParseIP(r) },
              ips     |-> { r \in rules : ParseIP(r) },
              err     |-> file.readErr]

\* IsBlocked without the canonicalization of the host (no ToLower, no
\* TrimSpace): the slip a mutation check of the block-list claims uses.
IsBlockedNoCanon(domains, ips, host) ==
    LET wild == {d \in domains : WildcardMatches(d, host)}
    IN  IF host \in domains THEN {[blocked |-> TRUE, rule |-> host]}
        ELSE IF host \in ips THEN {[blocked |-> TRUE, rule |-> host]}
        ELSE IF wild # {} THEN {[blocked |-> TRUE, rule |-> d] : d \in wild}
        ELSE {[blocked |-> FALSE, rule |-> << >>]}

\* Filter.IsBlocked: the set of results the call can return. An exact domain
\* rule, then an exact IP rule, then the wildcard rules in the iteration
\* order of a Go map, which is not fixed: any matching wildcard rule can be
\* the one returned.
IsBlocked(domains, ips, host) ==
    LET h    == ToLower(TrimSpace(host))
        wild == {d \in domains : WildcardMatches(d, h)}
    IN  IF h \in domains THEN {[blocked |-> TRUE, rule |-> h]}
        ELSE IF h \in ips THEN {[blocked |-> TRUE, rule |-> h]}
        ELSE IF wild # {} THEN {[blocked |-> TRUE, rule |-> d] : d \in wild}
        ELSE {[blocked |-> FALSE, rule |-> << >>]}

\* --------------------------------------------------------------- forwarder

\* What the upstream does for one forwarded request:
\*   dialOk       net.DialTimeout succeeds
\*   sendOk       the serialized request is written in full
\*   stream       the bytes the upstream sends, cut into the '\n'-terminated
\*                lines ReadString returns (a last element without '\n' is
\*                data that ends without a line end)
\*   end          what the read after the last byte returns: "eof" (the
\*                upstream closed) or "error" (reset, 30 s deadline)
\*   clientFailAt the number of the client conn.Write call that fails, 0 for
\*                none; a failed write delivers nothing and the connection
\*                stays broken afterwards
\*   cut          the most bytes one client conn.Write call takes (it returns
\*                that count and no error), 0 when every call takes all it
\*                is given

IsLine(chunk) == chunk # << >> /\ chunk[Len(chunk)] = "\n"

\* forwardResponse: the status code is the second space-separated token of
\* the trimmed status line, 0 when it is missing or not a number.
StatusCodeOf(statusLine) ==
    LET parts == SplitN(TrimSpace(statusLine), " ", 3)
    IN  IF Len(parts) >= 2 /\ Atoi(parts[2]).ok THEN Atoi(parts[2]).val ELSE 0

RelayWrite(chunk) == [kind |-> "relay", code |-> 0, data |-> chunk]

\* writeAll with a single conn.Write: what that call did not take is never
\* written, and the count reported is the length asked for.
WriteAllOnce(data, cut, nw, failAt) ==
    IF data = << >> THEN [pieces |-> << >>, written |-> 0, err |-> FALSE, nw |-> nw]
    ELSE IF failAt = nw + 1
    THEN [pieces |-> << >>, written |-> 0, err |-> TRUE, nw |-> nw + 1]
    ELSE LET k == IF cut = 0 \/ cut > Len(data) THEN Len(data) ELSE cut
         IN  [pieces |-> << SubSeq(data, 1, k) >>, written |-> Len(data),
              err |-> FALSE, nw |-> nw + 1]

\* Forwarder.writeAll(clientConn, data): conn.Write is called on what is
\* left until all is written or a call fails. nw is the number of
\* conn.Write calls made before. The result: the pieces the calls took, the
\* count returned, whether an error is returned, the calls made by now.
RECURSIVE WriteAll(_, _, _, _)
WriteAll(data, cut, nw, failAt) ==
    IF data = << >> THEN [pieces |-> << >>, written |-> 0, err |-> FALSE, nw |-> nw]
    ELSE IF failAt = nw + 1
    THEN [pieces |-> << >>, written |-> 0, err |-> TRUE, nw |-> nw + 1]
    ELSE LET k    == IF cut = 0 \/ cut > Len(data) THEN Len(data) ELSE cut
             rest == WriteAll(SubSeq(data, k + 1, Len(data)), cut, nw + 1, failAt)
         IN  [pieces |-> << SubSeq(data, 1, k) >> \o rest.pieces,
              written |-> k + rest.written, err |-> rest.err, nw |-> rest.nw]

\* The client writes of the pieces one writeAll delivered.
RelayWrites(pieces) == [i \in 1..Len(pieces) |-> RelayWrite(pieces[i])]

\* forwardResponse after the status line: the header loop from stream
\* element i on (inBody = FALSE), then streamBody (inBody = TRUE). nw is the
\* number of client conn.Write calls made so far, acc what has been written,
\* n the bytes written.
RECURSIVE RelayFrom(_, _, _, _, _, _, _)

\* One writeAll of the header loop or of streamBody has returned w.
RelayNext(up, code, i, inBody, acc, n, w) ==
    IF w.err
    THEN [statusCode |-> code, bytesDown |-> n + w.written, err |-> TRUE,
          writes |-> acc \o RelayWrites(w.pieces), broken |-> TRUE]
    ELSE RelayFrom(up, code, i + 1,
                   inBody \/ up.stream[i] \in {<<"\r", "\n">>, <<"\n">>},
                   w.nw, acc \o RelayWrites(w.pieces), n + w.written)

RelayFrom(up, code, i, inBody, nw, acc, n) ==
    IF i > Len(up.stream)
    THEN [statusCode |-> code, bytesDown |-> n,
          err |-> IF inBody THEN up.end = "error" ELSE TRUE,
          writes |-> acc, broken |-> FALSE]
    ELSE IF ~inBody /\ ~IsLine(up.stream[i])
    THEN [statusCode |-> code, bytesDown |-> n, err |-> TRUE,
          writes |-> acc, broken |-> FALSE]
    ELSE RelayNext(up, code, i, inBody, acc, n,
                   WriteAll(up.stream[i], up.cut, nw, up.clientFailAt))

\* forwardResponse once the writeAll of the status line has returned w.
AfterStatusLine(up, w) ==
    IF w.err
    THEN [statusCode |-> StatusCodeOf(up.stream[1]), bytesDown |-> w.written,
          err |-> TRUE, writes |-> RelayWrites(w.pieces), broken |-> TRUE]
    ELSE RelayFrom(up, StatusCodeOf(up.stream[1]), 2, FALSE, w.nw,
                   RelayWrites(w.pieces), w.written)

\* Forwarder.forwardResponse
ForwardResponse(up) ==
    IF up.stream = << >> \/ ~IsLine(up.stream[1])
    THEN [statusCode |-> 0, bytesDown |-> 0, err |-> TRUE,
          writes |-> << >>, broken |-> FALSE]
    ELSE AfterStatusLine(up, WriteAll(up.stream[1], up.cut, 0, up.clientFailAt))

\* ForwardRequest once forwardResponse has returned r.
ForwardResult(reqLen, r) ==
    [statusCode |-> r.statusCode, bytesUp |-> reqLen,
     bytesDown |-> r.bytesDown, err |-> r.err,
     writes |-> r.writes, broken |-> r.broken, dials |-> 1]

\* Forwarder.ForwardRequest. reqLen is the length of the serialized request.
ForwardRequest(reqLen, up) ==
    IF ~up.dialOk
    THEN [statusCode |-> 0, bytesUp |-> 0, bytesDown |-> 0, err |-> TRUE,
          writes |-> << >>, broken |-> FALSE, dials |-> 1]
    ELSE IF ~up.sendOk
    THEN [statusCode |-> 0, bytesUp |-> 0, bytesDown |-> 0, err |-> TRUE,
          writes |-> << >>, broken |-> FALSE, dials |-> 1]
    ELSE ForwardResult(reqLen, ForwardResponse(up))

\* What the upstream and the two ends do for one CONNECT:
\*   dialOk   net.DialTimeout succeeds
\*   replyOk  the write of the 200 line to the client succeeds
\*   copy     what the first io.Copy to finish reports: "nil", "eof", "err"

ConnectWrite(code) == [kind |-> "connect", code |-> code, data |-> << >>]

\* Forwarder.HandleCONNECT
HandleCONNECT(tun) ==
    IF ~tun.dialOk
    THEN [err |-> TRUE, writes |-> << ConnectWrite(502) >>, broken |-> FALSE, dials |-> 1]
    ELSE IF ~tun.replyOk
    THEN [err |-> TRUE, writes |-> << >>, broken |-> TRUE, dials |-> 1]
    ELSE [err |-> tun.copy = "err", writes |-> << ConnectWrite(200) >>,
          broken |-> FALSE, dials |-> 1]

\* HTTPRequest.SerializeRequest: the length of what it builds. An absolute
\* target is rewritten to path?query ("/" for an empty path); every header is
\* written as "Name: value\r\n" (the order of a Go map, which does not change
\* the length); then the blank line and the body.
RECURSIVE SumLen(_, _)
SumLen(headers, keys) ==
    IF keys = {} THEN 0
    ELSE LET k == CHOOSE x \in keys : TRUE
         IN  Len(k) + 2 + Len(headers[k]) + 2 + SumLen(headers, keys \ {k})

OriginForm(target) ==
    IF IsAbsoluteForm(target) /\ UrlParse(target).ok
    THEN LET u == UrlParse(target)
             path == IF u.Path = << >> THEN <<"/">> ELSE u.Path
         IN  IF u.RawQuery # << >> THEN path \o <<"?">> \o u.RawQuery ELSE path
    ELSE target

SerializedLen(req) ==
    Len(req.Method) + 1 + Len(OriginForm(req.RequestTarget)) + 1 + Len(req.Version) + 2
    + SumLen(req.Headers, DOMAIN req.Headers) + 2 + req.BodyLen

\* capitalizeHeader: the first character of the name and every character
\* after a '-' in upper case, all others in lower case.
CapitalizeHeader(name) ==
    [i \in 1..Len(name) |->
        IF i = 1 \/ name[i - 1] = "-" THEN ToUpperCh(name[i]) ELSE ToLowerCh(name[i])]

\* The orders a range over a Go map with these keys can take.
MapOrders(keys) ==
    { o \in [1..Cardinality(keys) -> keys] :
        \A i, j \in 1..Cardinality(keys) : o[i] = o[j] => i = j }

\* HTTPRequest.SerializeRequest: the byte strings it can build, one for each
\* order of the header map, as they arrive at a reader: the request line
\* and the header lines without their '\n', the blank line, the body.
SerializeRequest(req) ==
    { [hasLine     |-> TRUE,
       reqLine     |-> req.Method \o <<" ">> \o OriginForm(req.RequestTarget)
                       \o <<" ">> \o req.Version \o <<"\r">>,
       headerLines |-> [i \in 1..Len(o) |->
                          CapitalizeHeader(o[i]) \o <<":", " ">>
                          \o req.Headers[o[i]] \o <<"\r">>],
       terminated  |-> TRUE,
       bodyAvail   |-> req.BodyLen] : o \in MapOrders(DOMAIN req.Headers) }

\* ------------------------------------------------------------------- cache

\* MakeCacheKey: method + ":" + target for GET, "" otherwise.
MakeCacheKey(method, target) ==
    IF method # MethodGET THEN << >> ELSE method \o <<":">> \o target

\* ------------------------------------------------------------------- cache
\* The Cache of cache.go. An entry object is a record of the heap, named by
\* its id, as the cache and its callers share pointers to it.

\* NewCache: maxSize, 100 * 1024 * 1024.
MaxCacheSize == 104857600

\* NewCache(maxEntries).
NewCache(maxEntries) ==
    [entries |-> << >>, accessOrder |-> << >>, maxEntries |-> maxEntries,
     maxSize |-> MaxCacheSize, currentSize |-> 0, hung |-> FALSE]

\* Put, the entry size: len(entry.Body) plus len(k) + len(v) over the headers.
EntrySize(e) == e.Body + e.HeaderBytes

\* The function f without key k (delete(c.entries, key)).
MapDelete(f, k) == [x \in DOMAIN f \ {k} |-> f[x]]

\* The function f with key k set to v (c.entries[key] = entry).
MapSet(f, k, v) == [x \in DOMAIN f \cup {k} |-> IF x = k THEN v ELSE f[x]]

\* removeFromOrder: the list without the first occurrence of key.
RemoveFromOrder(order, key) ==
    IF \E i \in 1..Len(order) : order[i] = key
    THEN LET i == CHOOSE j \in 1..Len(order) :
                      order[j] = key /\ \A k \in 1..(j - 1) : order[k] # key
         IN  SubSeq(order, 1, i - 1) \o SubSeq(order, i + 1, Len(order))
    ELSE order

\* moveToEnd without its removeFromOrder call.
MoveToEndNoRemove(order, key) == Append(order, key)

\* moveToEnd.
MoveToEnd(order, key) == Append(RemoveFromOrder(order, key), key)

\* An eviction that takes the last key of the access order, the most recently
\* used one, instead of the first.
EvictNewest(c, h) ==
    IF c.accessOrder = << >>
    THEN c
    ELSE LET key == c.accessOrder[Len(c.accessOrder)]
         IN  IF key \in DOMAIN c.entries
             THEN [c EXCEPT !.accessOrder = SubSeq(@, 1, Len(@) - 1),
                            !.currentSize = @ - h[c.entries[key]].Size,
                            !.entries = MapDelete(@, key)]
             ELSE [c EXCEPT !.accessOrder = SubSeq(@, 1, Len(@) - 1)]

\* evictLRU: nothing on an empty access order; else the first key leaves the
\* order and, if the map holds it, its Size leaves currentSize and it the map.
EvictLRU(c, h) ==
    IF c.accessOrder = << >>
    THEN c
    ELSE LET key == Head(c.accessOrder)
         IN  IF key \in DOMAIN c.entries
             THEN [c EXCEPT !.accessOrder = Tail(@),
                            !.currentSize = @ - h[c.entries[key]].Size,
                            !.entries = MapDelete(@, key)]
             ELSE [c EXCEPT !.accessOrder = Tail(@)]

\* The eviction condition with > in place of >= on the entry count.
MustEvictOffByOne(c, entrySize) ==
    /\ \/ Cardinality(DOMAIN c.entries) > c.maxEntries
       \/ c.currentSize + entrySize > c.maxSize
    /\ Cardinality(DOMAIN c.entries) > 0

\* Put, the condition of its eviction loop.
MustEvict(c, entrySize) ==
    /\ \/ Cardinality(DOMAIN c.entries) >= c.maxEntries
       \/ c.currentSize + entrySize > c.maxSize
    /\ Cardinality(DOMAIN c.entries) > 0

\* Put, the eviction loop. When the condition holds on an empty access order
\* evictLRU changes nothing and the loop never ends: hung.
RECURSIVE EvictLoop(_, _, _)
EvictLoop(c, h, entrySize) ==
    IF MustEvict(c, entrySize)
    THEN IF c.accessOrder = << >>
         THEN [c EXCEPT !.hung = TRUE]
         ELSE EvictLoop(EvictLRU(c, h), h, entrySize)
    ELSE c

\* Cache.Put(key, entry) at time now, entry the object o of heap h: the cache
\* and the heap after it (the cache hung if the eviction loop never ends).
CachePut(c, h, key, o, now) ==
    LET entrySize == EntrySize(h[o])
        h1 == [h EXCEPT ![o].Size = entrySize, ![o].LastAccessed = now]
        c1 == IF key \in DOMAIN c.entries
              THEN [c EXCEPT !.currentSize = @ - h1[c.entries[key]].Size,
                             !.accessOrder = RemoveFromOrder(@, key)]
              ELSE c
        c2 == EvictLoop(c1, h1, entrySize)
    IN  IF c2.hung
        THEN [cache |-> c2, heap |-> h1]
        ELSE [cache |-> [c2 EXCEPT !.entries = MapSet(@, key, o),
                                   !.currentSize = @ + entrySize,
                                   !.accessOrder = Append(@, key)],
              heap |-> h1]

\* Cache.Get(key) at time now: found, the entry object (0 for nil), and the
\* cache and heap after it.
CacheGet(c, h, key, now) ==
    IF key \notin DOMAIN c.entries
    THEN [found |-> FALSE, entry |-> 0, cache |-> c, heap |-> h]
    ELSE [found |-> TRUE, entry |-> c.entries[key],
          cache |-> [c EXCEPT !.accessOrder = MoveToEnd(@, key)],
          heap |-> [h EXCEPT ![c.entries[key]].LastAccessed = now]]

\* Cache.Clear.
CacheClear(c) == [c EXCEPT !.entries = << >>, !.accessOrder = << >>, !.currentSize = 0]

\* ------------------------------------------------------------------- state

ConnIds == 1..MaxConns

VARIABLES
    config,            \* the Config record the server was built with
    blockedDomains,    \* Filter.blockedDomains
    blockedIPs,        \* Filter.blockedIPs
    cacheEntries,      \* Cache.entries (nil cache when caching is off)
    conns,             \* per client connection: the request on the wire (raw),
                       \* the handler's position (st), its parsed request (req)
                       \* and the entries it has still to log (pending), what
                       \* was written to the client (out), the upstream dials,
                       \* the calls of Logger.Log, whether it is closed
    logLines,          \* the lines Logger.Log has appended to the log file
    loggerClosed,      \* Logger.Close has closed the file
    listenerClosed,    \* s.listener.Close() has run
    shutdownClosed,    \* close(s.shutdown) has run
    wg,                \* Server.wg counter
    mainPc,            \* main goroutine: where it is in Start / main
    mainConn,          \* the connection Accept returned to the accept loop
    acceptErr,         \* the error Start returned: "" (none), "closed" (the
                       \* listener was closed) or "other"
    sigPc,             \* the signal goroutine of main
    sdPc,              \* per caller of Server.Shutdown: the statement it is at
    wpShutdownClosed,  \* close(wp.shutdown) has run
    queue,             \* WorkerPool.workQueue contents
    queueClosed,       \* close(wp.workQueue) has run
    workers,           \* per pool worker: its position and its connection
    exit,              \* how the process ended, code -1 while it runs
    lruCache,          \* a Cache: entries (key -> entry object), accessOrder,
                       \* maxEntries, maxSize, currentSize; hung when a Put
                       \* spins in its eviction loop holding the mutex
    heap,              \* the CacheEntry objects the cache and its callers
                       \* point to: Body and Headers lengths, Size, LastAccessed
    calls,             \* the last two completed or hung Cache calls, oldest first
    nCalls,            \* the number of Cache calls made so far (the clock)
    recency,           \* the stored keys in the order of their last Put or Get hit
    lastLoad,          \* the last call of Filter.LoadRules: its file and result
    lookups,           \* the last two calls of Filter.IsBlocked made since
                       \* LoadRules was last given another file, oldest first
    relay,             \* one forwarded request: what the upstream does, and
                       \* once handleConnection is through with it what the
                       \* client was sent and what was logged
    tunnel,            \* one run of Forwarder.HandleCONNECT and its two copies
    logger             \* a Logger, its file and the callers of Log

vars == << config, blockedDomains, blockedIPs, cacheEntries, conns, logLines,
           loggerClosed, listenerClosed, shutdownClosed, wg, mainPc, mainConn,
           acceptErr, sigPc, sdPc, wpShutdownClosed, queue, queueClosed, workers, exit,
           lruCache, heap, calls, nCalls, recency, lastLoad, lookups, relay, tunnel, logger >>

cacheVars == << lruCache, heap, calls, nCalls, recency >>

filterVars == << blockedDomains, blockedIPs >>

unitVars == << lastLoad, lookups, relay, tunnel, logger >>

lifecycleVars == << listenerClosed, shutdownClosed, mainPc, mainConn, acceptErr,
                    sigPc, sdPc, wpShutdownClosed, queue, queueClosed >>

Running == exit.code = -1

\* The entry objects of the model's heap.
ObjIds == { 1, 2 }

\* A CacheEntry nobody has filled in yet.
NoObject == [Body |-> 0, HeaderBytes |-> 0, Size |-> 0, LastAccessed |-> 0]

\* A cache nobody has called yet (the server never calls Put).
CacheUnused ==
    /\ lruCache = NewCache(1)
    /\ heap = [o \in ObjIds |-> NoObject]
    /\ calls = << >>
    /\ nCalls = 0
    /\ recency = << >>

\* No LoadRules call and no IsBlocked call recorded.
NoFile == [exists |-> FALSE, readable |-> FALSE, lines |-> << >>, readErr |-> FALSE]

NoLoad == [called |-> FALSE, file |-> NoFile, err |-> FALSE]

FilterUnused == lastLoad = NoLoad /\ lookups = << >>

\* No upstream was asked for a response.
NoUpstream == [dialOk |-> FALSE, sendOk |-> FALSE, stream |-> << >>, end |-> "",
               clientFailAt |-> 0, cut |-> 0]

\* No request being forwarded.
NoRelay == [pc |-> "none", up |-> NoUpstream, out |-> << >>, logged |-> << >>]

RelayUnused == relay = NoRelay

\* No CONNECT under way. The fields of a tunnel:
\*   pc        where handleConnection is: "dial" (about to call
\*             HandleCONNECT), "reply", "wait" (at <-done), "returned"
\*             (HandleCONNECT has returned), "logged", "done" (returned)
\*   dialed    "no", "ok" or "failed"
\*   upstream  upstreamConn: "none", "open" or "closed"
\*   client    the client connection: "open" or "closed"
\*   out       what has been written to the client, in order
\*   toUp      the number of bytes relayed to the upstream
\*   wire      the bytes the client sends after the request line of its
\*             CONNECT, in all
\*   buffered  how many of them the parser's bufio.Reader had read from the
\*             connection when ParseHTTPRequest returned
\*   copy      the two io.Copy goroutines: "idle", "run" or "done"
\*   done      the contents of the channel done
\*   err       HandleCONNECT returned an error
\*   logged    the (action, status) pairs passed to logRequest
NoTunnel == [pc |-> "none", dialed |-> "no", upstream |-> "none", client |-> "open",
             out |-> << >>, toUp |-> 0, wire |-> << >>, buffered |-> 0,
             copy |-> [d \in {"c2u", "u2c"} |-> "idle"],
             done |-> << >>, err |-> FALSE, logged |-> << >>]

TunnelUnused == tunnel = NoTunnel

\* The callers of Logger.Log.
LogCallers == { 1, 2 }

\* A caller that is not inside Log.
IdleCaller == [pc |-> "idle", len |-> 0]

\* An *os.File: the file it is open on, its write offset, whether it was
\* opened with O_APPEND, whether Close has been called on it.
NoHandle == [file |-> 0, offset |-> 0, append |-> FALSE, closed |-> TRUE]

\* No Logger built. The fields of a logger:
\*   pc           "none", or "open" once NewLogger has returned it
\*   maxSizeMB    Logger.maxSizeMB
\*   currentSize  Logger.currentSize
\*   handle       Logger.file
\*   atPath       the file now at Logger.filePath, 0 when there is none
\*   sizes        the size in bytes of every file ever at filePath
\*   mu           the caller that holds Logger.mu, 0 when it is free
\*   callers      the callers of Log: where each is, and the length of the
\*                line it logs
\*   acquired     the callers of Log in the order they locked mu
\*   written      the lines written, in order: the caller and the file
\*   closeCalled  Logger.Close has been called
NoLogger == [pc |-> "none", maxSizeMB |-> 0, currentSize |-> 0, handle |-> NoHandle,
             atPath |-> 0, sizes |-> << >>, mu |-> 0,
             callers |-> [p \in LogCallers |-> IdleCaller],
             acquired |-> << >>, written |-> << >>, closeCalled |-> FALSE]

LoggerUnused == logger = NoLogger

UnitsUnused == FilterUnused /\ RelayUnused /\ TunnelUnused /\ LoggerUnused

ThreadPerConnection == "thread_per_connection"

ThreadPool == "thread_pool"

NoRaw == [hasLine |-> FALSE, reqLine |-> << >>, headerLines |-> << >>,
          terminated |-> FALSE, bodyAvail |-> 0]

NoEntry == [Action |-> "", Status |-> 0, BytesUp |-> 0, BytesDown |-> 0,
            Rule |-> << >>, Method |-> << >>, Target |-> << >>,
            Host |-> << >>, Port |-> 0]

\* A connection nobody has accepted yet.
IdleConn == [st |-> "none", raw |-> NoRaw, req |-> [ok |-> FALSE, err |-> ""],
             out |-> << >>, closed |-> FALSE, dials |-> 0, pending |-> << >>,
             logCalls |-> 0,
             late |-> FALSE]   \* Accept returned it with s.shutdown already closed

\* ----------------------------------------------------------------- handler

ErrorWrite(code) == [kind |-> "error", code |-> code, data |-> << >>]

CacheWrite(code) == [kind |-> "cache", code |-> code, data |-> << >>]

\* The text of an error (err.Error()), which handleConnection passes to
\* logRequest in the blockedRule position.
ErrText == <<"e","r","r">>

MethodUNKNOWN == <<"U","N","K","N","O","W","N">>

RuleConnectDisabled == <<"C","O","N","N","E","C","T"," ","n","o","t"," ",
                         "e","n","a","b","l","e","d">>

ProxyAuthKey == <<"p","r","o","x","y","-","a","u","t","h","o","r","i","z","a","t","i","o","n">>

\* Server.logRequest: the LogEntry built for a parsed request.
LogEntryFor(req, action, status, up, down, rule) ==
    [Action |-> action, Status |-> status, BytesUp |-> up, BytesDown |-> down,
     Rule |-> rule, Method |-> req.Method, Target |-> req.RequestTarget,
     Host |-> req.Host, Port |-> req.Port]

\* Logger.formatLogEntry: the line ends in " [BLOCKED: <rule>]" when the
\* BlockedRule field of the entry is not empty.
HasBlockedSuffix(entry) == entry.Rule # << >>

\* The authentication check of handleConnection: TRUE when the request is
\* turned away with 407.
AuthFails(cfg, req) ==
    cfg.AuthToken # << >> /\ HeaderGet(req.Headers, ProxyAuthKey) # cfg.AuthToken

\* --------------------------------------------------- environment of a run

StatusLine200 == <<"H"," ","2","0","0"," ","O","K","\r","\n">>

StatusLine404 == <<"H"," ","4","0","4","\n">>

StatusLineNoCode == <<"H","\r","\n">>

HeaderLineX == <<"X",":","1","\r","\n">>

BlankLine == <<"\r","\n">>

UpstreamStreams ==
    { << >>,
      << <<"H"," ","2">> >>,
      << StatusLine200 >>,
      << StatusLine200, HeaderLineX >>,
      << StatusLine200, HeaderLineX, BlankLine >>,
      << StatusLine200, HeaderLineX, BlankLine, <<"h","i">> >>,
      << StatusLine404, <<"\n">>, <<"n","o","\n">>, <<"!">> >>,
      << StatusLineNoCode, BlankLine >> }

\* What an upstream can do for a forwarded request.
Upstreams ==
    { [dialOk |-> FALSE, sendOk |-> FALSE, stream |-> << >>, end |-> "eof",
       clientFailAt |-> 0, cut |-> 0],
      [dialOk |-> TRUE, sendOk |-> FALSE, stream |-> << >>, end |-> "eof",
       clientFailAt |-> 0, cut |-> 0] }
    \cup
    { [dialOk |-> TRUE, sendOk |-> TRUE, stream |-> s, end |-> e, clientFailAt |-> k,
       cut |-> 0] :
        s \in UpstreamStreams, e \in {"eof", "error"}, k \in 0..3 }

\* What can happen to a CONNECT.
Tunnels ==
    { [dialOk |-> FALSE, replyOk |-> FALSE, copy |-> "nil"],
      [dialOk |-> TRUE, replyOk |-> FALSE, copy |-> "nil"] }
    \cup
    { [dialOk |-> TRUE, replyOk |-> TRUE, copy |-> r] : r \in {"nil", "eof", "err"} }

\* What one path through handleConnection has done when it returns: the
\* writes to the client, the upstream dials, and the entries passed to
\* logRequest, in order.
PathResult(writes, dials, logs) == [writes |-> writes, dials |-> dials, logs |-> logs]

\* handleConnection, ParseHTTPRequest failed.
OnParseError ==
    PathResult(<< ErrorWrite(400) >>, 0,
               << [NoEntry EXCEPT !.Action = "ERROR", !.Status = 400,
                                  !.Method = MethodUNKNOWN, !.Rule = ErrText] >>)

\* handleConnection, the Proxy-Authorization header is not the token.
OnAuthFailure(req) ==
    PathResult(<< ErrorWrite(407) >>, 0,
               << LogEntryFor(req, "AUTH_FAILED", 407, 0, 0, << >>) >>)

\* The CONNECT test with its sense inverted.
ConnectRefusedInverted(cfg) == cfg.EnableConnectTunnel

\* The test of handleConnection that refuses every CONNECT.
ConnectRefused(cfg) == ~cfg.EnableConnectTunnel

\* handleConnection, CONNECT with tunneling switched off.
OnConnectDisabled(req) ==
    PathResult(<< ErrorWrite(501) >>, 0,
               << LogEntryFor(req, "BLOCKED", 501, 0, 0, RuleConnectDisabled) >>)

\* handleConnection, IsBlocked returned (true, rule): both the CONNECT and
\* the plain branch.
OnBlocked(req, blk) ==
    PathResult(<< ErrorWrite(403) >>, 0,
               << LogEntryFor(req, "BLOCKED", 403, 0, 0, blk.rule) >>)

\* handleConnection, the CONNECT branch past the checks.
OnTunnel(req, tun) ==
    LET t == HandleCONNECT(tun)
    IN  IF t.err
        THEN PathResult(t.writes, t.dials,
                        << LogEntryFor(req, "ERROR", 0, 0, 0, ErrText) >>)
        ELSE PathResult(t.writes, t.dials,
                        << LogEntryFor(req, "ALLOWED", 200, 0, 0, << >>) >>)

\* handleConnection, the cache lookup: s.cache != nil, a non-empty key, and
\* Cache.Get finds it.
CacheHit(cfg, cache, req) ==
    LET cacheKey == MakeCacheKey(req.Method, req.RequestTarget)
    IN  cfg.EnableCaching /\ cacheKey # << >> /\ cacheKey \in DOMAIN cache

\* handleConnection, serveCachedResponse.
OnCacheHit(cache, req) ==
    LET e == cache[MakeCacheKey(req.Method, req.RequestTarget)]
    IN  PathResult(<< CacheWrite(e.StatusCode) >>, 0,
                   << LogEntryFor(req, "CACHE_HIT", e.StatusCode, 0, e.BodyLen, << >>) >>)

\* handleConnection, ForwardRequest and what follows it. On an error the 502
\* response is written whatever has been relayed already (a write to a
\* client connection that is broken delivers nothing).
ForwardOutcome(req, fwd) ==
    IF fwd.err
    THEN PathResult(IF fwd.broken THEN fwd.writes
                    ELSE Append(fwd.writes, ErrorWrite(502)),
                    fwd.dials,
                    << LogEntryFor(req, "ERROR", 502, fwd.bytesUp, fwd.bytesDown,
                                   ErrText) >>)
    ELSE PathResult(fwd.writes, fwd.dials,
                    << LogEntryFor(req, "ALLOWED", fwd.statusCode, fwd.bytesUp,
                                   fwd.bytesDown, << >>) >>)

OnForward(req, up) == ForwardOutcome(req, ForwardRequest(SerializedLen(req), up))

\* handleConnection with the block-list consulted before the authentication
\* check.
HandleConnectionFilterFirst(req, cfg, domains, ips, cache) ==
    IF ~req.ok THEN { OnParseError }
    ELSE UNION { IF blk.blocked THEN { OnBlocked(req, blk) }
                 ELSE IF AuthFails(cfg, req) THEN { OnAuthFailure(req) }
                 ELSE IF req.IsConnect
                 THEN IF ConnectRefused(cfg) THEN { OnConnectDisabled(req) }
                      ELSE { OnTunnel(req, tun) : tun \in Tunnels }
                 ELSE IF CacheHit(cfg, cache, req) THEN { OnCacheHit(cache, req) }
                 ELSE { OnForward(req, up) : up \in Upstreams } :
                 blk \in IsBlocked(domains, ips, req.Host) }

\* Server.handleConnection from the result req of ParseHTTPRequest to its
\* return: the set of ways it can go. The choices are the rule IsBlocked
\* returns and what the upstream does.
HandleConnection(req, cfg, domains, ips, cache) ==
    IF ~req.ok THEN { OnParseError }
    ELSE IF AuthFails(cfg, req) THEN { OnAuthFailure(req) }
    ELSE IF req.IsConnect
    THEN IF ConnectRefused(cfg) THEN { OnConnectDisabled(req) }
         ELSE UNION { IF blk.blocked THEN { OnBlocked(req, blk) }
                      ELSE { OnTunnel(req, tun) : tun \in Tunnels } :
                      blk \in IsBlocked(domains, ips, req.Host) }
    ELSE UNION { IF blk.blocked THEN { OnBlocked(req, blk) }
                 ELSE IF CacheHit(cfg, cache, req) THEN { OnCacheHit(cache, req) }
                 ELSE { OnForward(req, up) : up \in Upstreams } :
                 blk \in IsBlocked(domains, ips, req.Host) }

\* Logger.Log: the line is appended unless the file has been closed, in which
\* case the write fails and the error is dropped.
LoggerLog(lines, closed, line) == IF closed THEN lines ELSE Append(lines, line)

\* conn.Close() called at the end of the function body instead of deferred:
\* the early returns (every path but a forwarded response) skip it.
ConnCloseNotDeferred(conn) ==
    [conn EXCEPT !.closed = (conn.out # << >> /\ conn.out[1].kind = "relay"
                             /\ conn.out[Len(conn.out)].kind = "relay"),
                 !.st = "done"]

\* The deferred conn.Close() of handleConnection.
ConnClose(conn) == [conn EXCEPT !.closed = TRUE, !.st = "done"]

\* ------------------------------------------------- handler, as actions

\* handleConnection up to its first call of logRequest (to its return
\* statement when the path logs nothing): the parse, the checks, the
\* responses written and the forwarding.
HandleRequest(c) ==
    /\ Running
    /\ conns[c].st = "run"
    /\ LET req == ParseHTTPRequest(conns[c].raw)
       IN  \E r \in HandleConnection(req, config, blockedDomains, blockedIPs,
                                     cacheEntries) :
              conns' = [conns EXCEPT ![c].req = req,
                                     ![c].out = r.writes, ![c].dials = r.dials,
                                     ![c].pending = r.logs,
                                     ![c].st = IF r.logs = << >> THEN "exit" ELSE "log"]
    /\ UNCHANGED << cacheVars, unitVars, config, filterVars, cacheEntries, logLines, loggerClosed, wg,
                    lifecycleVars, workers, exit >>

\* s.logRequest(...) on the path taken: a call of Logger.Log.
HandleLog(c) ==
    /\ Running
    /\ conns[c].st = "log"
    /\ logLines' = LoggerLog(logLines, loggerClosed,
                             [conn |-> c, entry |-> Head(conns[c].pending)])
    /\ conns' = [conns EXCEPT ![c].logCalls = @ + 1,
                              ![c].pending = Tail(@),
                              ![c].st = IF Len(conns[c].pending) = 1 THEN "exit" ELSE "log"]
    /\ UNCHANGED << cacheVars, unitVars, config, filterVars, cacheEntries, loggerClosed, wg,
                    lifecycleVars, workers, exit >>

\* The return of handleConnection: the deferred s.wg.Done() (registered only
\* in thread_per_connection mode) and conn.Close(); in thread_pool mode the
\* worker that ran the handler goes back to its select.
HandleExit(c) ==
    /\ Running
    /\ conns[c].st = "exit"
    /\ conns' = [conns EXCEPT ![c] = ConnClose(@)]
    /\ wg' = IF config.ConcurrencyModel = ThreadPerConnection THEN wg - 1 ELSE wg
    /\ workers' = [w \in DOMAIN workers |->
                     IF workers[w].pc = "handling" /\ workers[w].conn = c
                     THEN [pc |-> "select", conn |-> 0]
                     ELSE workers[w]]
    /\ UNCHANGED << cacheVars, unitVars, config, filterVars, cacheEntries, logLines, loggerClosed,
                    lifecycleVars, exit >>

\* ------------------------------------------------------- sample requests

HostBT == <<"b",".","t">>

HostBTUpper == <<"B",".","T">>

HostAMT == <<"a",".","m",".","t">>

HostOK == <<"o",".","k">>

HostIP == <<"1",".","1",".","1",".","1">>

Hosts == { HostBT, HostBTUpper, HostAMT, HostOK }

TokenS3 == <<"s","3">>

HTTP11 == <<"H","T","T","P","/","1",".","1">>

MethodPOST == <<"P","O","S","T">>

RequestLine(method, target) == method \o <<" ">> \o target \o <<" ">> \o HTTP11 \o <<"\r">>

HostLine(h) == <<"H","o","s","t",":"," ">> \o h \o <<"\r">>

AuthLine(v) ==
    <<"P","r","o","x","y","-","A","u","t","h","o","r","i","z","a","t","i","o","n",":"," ">>
    \o v \o <<"\r">>

\* The Proxy-Authorization lines a sample request carries: none, the token,
\* the token in another spelling of the header, a wrong value, and a wrong
\* value followed by the token.
AuthChoices ==
    { << >>,
      << AuthLine(TokenS3) >>,
      << ProxyAuthKey \o <<":">> \o TokenS3 \o <<" ">> >>,
      << AuthLine(<<"n","o">>) >>,
      << AuthLine(<<"n","o">>), AuthLine(TokenS3) >> }

Wire(line, headerLines) ==
    [hasLine |-> TRUE, reqLine |-> line, headerLines |-> headerLines,
     terminated |-> TRUE, bodyAvail |-> 0]

AbsoluteRequests ==
    { Wire(RequestLine(m, SchemeHTTP \o h \o <<"/">>), a) :
        m \in {MethodGET, MethodPOST}, h \in Hosts, a \in AuthChoices }

OriginRequests ==
    { Wire(RequestLine(MethodGET, <<"/","x">>), << HostLine(h) >> \o a) :
        h \in Hosts, a \in AuthChoices }

ConnectRequests ==
    { Wire(RequestLine(m, h \o <<":","4","4","3">>), a) :
        m \in {MethodCONNECT, <<"c","o","n","n","e","c","t">>}, h \in Hosts,
        a \in AuthChoices }

ContentLengthLine(v) ==
    <<"C","o","n","t","e","n","t","-","L","e","n","g","t","h",":">> \o v

\* Requests the parser refuses, and a few it accepts in less common forms.
OtherRequests ==
    { NoRaw,
      Wire(RequestLine(MethodGET, SchemeHTTP \o HostIP \o <<"/">>), << >>),
      Wire(<<"G","E","T"," ","/">>, << >>),
      Wire(RequestLine(MethodCONNECT, HostBT), << >>),
      Wire(RequestLine(MethodCONNECT, HostBT \o <<":","x">>), << >>),
      Wire(RequestLine(MethodCONNECT, HostOK \o <<":","7","0","0","0","0">>), << >>),
      Wire(RequestLine(MethodCONNECT, HostOK \o <<":","0">>), << >>),
      Wire(RequestLine(MethodGET, <<"/">>), << HostLine(HostOK \o <<":","-","1">>) >>),
      Wire(RequestLine(MethodGET, <<"/">>), << >>),
      Wire(RequestLine(MethodGET, <<"/">>), << HostLine(HostOK \o <<":","x">>) >>),
      Wire(RequestLine(MethodGET, <<"/">>), << <<"n","o","c","o","l","o","n">>,
                                              HostLine(HostBT \o <<":","8","1">>) >>),
      [Wire(RequestLine(MethodGET, <<"/">>), << HostLine(HostOK) >>)
          EXCEPT !.terminated = FALSE],
      Wire(RequestLine(MethodGET, SchemeHTTPS \o HostOK \o <<":","8","0","/","p","?","q">>),
           << >>),
      Wire(RequestLine(MethodGET, SchemeHTTP \o HostOK \o <<":","x","/">>), << >>),
      Wire(RequestLine(MethodPOST, <<"/">>),
           << HostLine(HostOK), ContentLengthLine(<<"-","1">>) >>),
      Wire(RequestLine(MethodPOST, <<"/">>),
           << HostLine(HostOK), ContentLengthLine(<<"x">>) >>),
      Wire(RequestLine(MethodPOST, <<"/">>),
           << HostLine(HostOK), ContentLengthLine(<<"1","0","4","8","5","7","6","1">>) >>),
      Wire(RequestLine(MethodPOST, <<"/">>),
           << HostLine(HostOK), ContentLengthLine(<<"3">>) >>),
      [Wire(RequestLine(MethodPOST, <<"/">>),
            << HostLine(HostOK), ContentLengthLine(<<"3">>) >>)
          EXCEPT !.bodyAvail = 3] }

RawRequests == AbsoluteRequests \cup OriginRequests \cup ConnectRequests \cup OtherRequests

\* Rule sets as LoadRules leaves them: none; an exact domain and an IP; two
\* wildcard rules that overlap.
RuleSets ==
    { [domains |-> {}, ips |-> {}],
      [domains |-> { HostBT }, ips |-> { HostIP }],
      [domains |-> { <<"*",".","m",".","t">>, <<"*",".","t">> }, ips |-> {}] }

\* The configurations a handler is checked under.
HandlerConfigs ==
    [ ConcurrencyModel    : { ThreadPerConnection, ThreadPool },
      ThreadPoolSize      : { 1 },
      EnableCaching       : BOOLEAN,
      EnableConnectTunnel : BOOLEAN,
      AuthToken           : { << >>, TokenS3 } ]

\* ------------------------------------------- the per-connection routine

\* One connection whose handler has just been started, by the accept loop
\* (s.wg.Add(1); go s.handleConnection(conn)) or by pool worker 1, with any
\* sample request on the wire, under any configuration and rule set.
InitHandler ==
    /\ config \in HandlerConfigs
    /\ \E rs \in RuleSets : blockedDomains = rs.domains /\ blockedIPs = rs.ips
    /\ cacheEntries = << >>
    /\ \E raw \in RawRequests :
         conns = [c \in ConnIds |->
                    IF c = 1 THEN [IdleConn EXCEPT !.st = "run", !.raw = raw]
                    ELSE IdleConn]
    /\ logLines = << >>
    /\ loggerClosed = FALSE
    /\ listenerClosed = FALSE
    /\ shutdownClosed = FALSE
    /\ wg = IF config.ConcurrencyModel = ThreadPerConnection THEN 1 ELSE 0
    /\ mainPc = "select"
    /\ mainConn = 0
    /\ acceptErr = ""
    /\ sigPc = "wait"
    /\ sdPc = [p \in {"sig", "main"} |-> "idle"]
    /\ wpShutdownClosed = FALSE
    /\ queue = << >>
    /\ queueClosed = FALSE
    /\ workers = IF config.ConcurrencyModel = ThreadPool
                 THEN [w \in 1..config.ThreadPoolSize |->
                         IF w = 1 THEN [pc |-> "handling", conn |-> 1]
                         ELSE [pc |-> "select", conn |-> 0]]
                 ELSE << >>
    /\ exit = [code |-> -1, why |-> ""]
    /\ CacheUnused
    /\ UnitsUnused

NextHandler == \E c \in ConnIds : HandleRequest(c) \/ HandleLog(c) \/ HandleExit(c)

SpecHandler == InitHandler /\ [][NextHandler]_vars

\* ------------------------------------------------------------ lifecycle
\* main, Server.Start, Server.Shutdown and the WorkerPool, one action per
\* statement that another goroutine can observe.

\* A runtime panic nobody recovers ends the process with exit code 2.
Panic(why) == [code |-> 2, why |-> why]

\* What arrives on the connections the lifecycle model accepts: a request the
\* parser refuses and a GET for a blocked host (neither reaches an upstream).
AcceptRequests ==
    { NoRaw, Wire(RequestLine(MethodGET, SchemeHTTP \o HostBT \o <<"/">>), << >>) }

\* The next connection the listener has to hand out, 0 when the model's
\* supply is used up.
NextConn ==
    IF \E c \in ConnIds : conns[c].st = "none"
    THEN CHOOSE c \in ConnIds : conns[c].st = "none"
                                /\ \A d \in ConnIds : conns[d].st = "none" => c <= d
    ELSE 0

\* WorkerPool: cap(wp.workQueue) = size*2.
QueueCap == 2 * config.ThreadPoolSize

\* Start, the select at the top of the accept loop: return nil once
\* s.shutdown is closed, else go on to SetDeadline and Accept.
LoopSelect ==
    /\ Running
    /\ mainPc = "select"
    /\ mainPc' = IF shutdownClosed THEN "returned_nil" ELSE "accept"
    /\ UNCHANGED << cacheVars, unitVars, config, filterVars, cacheEntries, conns, logLines, loggerClosed,
                    listenerClosed, shutdownClosed, wg, mainConn, acceptErr, sigPc, sdPc,
                    wpShutdownClosed, queue, queueClosed, workers, exit >>

\* Accept runs into the 1 s deadline: continue.
AcceptTimeout ==
    /\ Running
    /\ mainPc = "accept"
    /\ ~listenerClosed
    /\ mainPc' = "select"
    /\ UNCHANGED << cacheVars, unitVars, config, filterVars, cacheEntries, conns, logLines, loggerClosed,
                    listenerClosed, shutdownClosed, wg, mainConn, acceptErr, sigPc, sdPc,
                    wpShutdownClosed, queue, queueClosed, workers, exit >>

\* Accept returns a connection.
AcceptConn ==
    /\ Running
    /\ mainPc = "accept"
    /\ ~listenerClosed
    /\ NextConn # 0
    /\ \E raw \in AcceptRequests :
          conns' = [conns EXCEPT ![NextConn] = [@ EXCEPT !.st = "accepted", !.raw = raw,
                                                       !.late = shutdownClosed]]
    /\ mainConn' = NextConn
    /\ mainPc' = "dispatch"
    /\ UNCHANGED << cacheVars, unitVars, config, filterVars, cacheEntries, logLines, loggerClosed,
                    listenerClosed, shutdownClosed, wg, acceptErr, sigPc, sdPc,
                    wpShutdownClosed, queue, queueClosed, workers, exit >>

\* Accept returns an error that is no timeout: the listener was closed, or
\* the accept failed for another reason. Start returns the error.
AcceptError ==
    /\ Running
    /\ mainPc = "accept"
    /\ acceptErr' = IF listenerClosed THEN "closed" ELSE "other"
    /\ mainPc' = "returned_err"
    /\ UNCHANGED << cacheVars, unitVars, config, filterVars, cacheEntries, conns, logLines, loggerClosed,
                    listenerClosed, shutdownClosed, wg, mainConn, sigPc, sdPc,
                    wpShutdownClosed, queue, queueClosed, workers, exit >>

\* Start, thread_per_connection: s.wg.Add(1); go s.handleConnection(conn).
DispatchGoroutine ==
    /\ Running
    /\ mainPc = "dispatch"
    /\ config.ConcurrencyModel = ThreadPerConnection
    /\ wg' = wg + 1
    /\ conns' = [conns EXCEPT ![mainConn].st = "run"]
    /\ mainConn' = 0
    /\ mainPc' = "select"
    /\ UNCHANGED << cacheVars, unitVars, config, filterVars, cacheEntries, logLines, loggerClosed,
                    listenerClosed, shutdownClosed, acceptErr, sigPc, sdPc,
                    wpShutdownClosed, queue, queueClosed, workers, exit >>

\* A Submit whose send always finds room: it never takes the default arm.
SubmitNeverDrops(conn, q, cap) ==
    [conn |-> [conn EXCEPT !.st = "queued"], queued |-> TRUE]

\* WorkerPool.Submit, the effect of its select on the connection and the
\* queue: a send when the buffer has room, else the default arm closes the
\* connection.
SubmitEffect(conn, q, cap) ==
    IF Len(q) < cap
    THEN [conn |-> [conn EXCEPT !.st = "queued"], queued |-> TRUE]
    ELSE [conn |-> [conn EXCEPT !.st = "dropped", !.closed = TRUE], queued |-> FALSE]

\* Start, thread_pool: s.workerPool.Submit(conn). A send on the closed queue
\* panics.
DispatchSubmit ==
    /\ Running
    /\ mainPc = "dispatch"
    /\ config.ConcurrencyModel = ThreadPool
    /\ IF queueClosed
       THEN /\ exit' = Panic("send on closed channel")
            /\ UNCHANGED << conns, queue, mainConn, mainPc >>
       ELSE /\ LET r == SubmitEffect(conns[mainConn], queue, QueueCap)
               IN  /\ conns' = [conns EXCEPT ![mainConn] = r.conn]
                   /\ queue' = IF r.queued THEN Append(queue, mainConn) ELSE queue
            /\ mainConn' = 0
            /\ mainPc' = "select"
            /\ exit' = exit
    /\ UNCHANGED << cacheVars, unitVars, config, filterVars, cacheEntries, logLines, loggerClosed,
                    listenerClosed, shutdownClosed, wg, acceptErr, sigPc, sdPc,
                    wpShutdownClosed, queueClosed, workers >>

\* main: Start returned nil, main returns and the process ends with code 0.
MainReturn ==
    /\ Running
    /\ mainPc = "returned_nil"
    /\ exit' = [code |-> 0, why |-> "main returned"]
    /\ UNCHANGED << cacheVars, unitVars, config, filterVars, cacheEntries, conns, logLines, loggerClosed,
                    listenerClosed, shutdownClosed, wg, mainPc, mainConn, acceptErr,
                    sigPc, sdPc, wpShutdownClosed, queue, queueClosed, workers >>

\* main: Start returned an error; print it and call server.Shutdown().
MainCallsShutdown ==
    /\ Running
    /\ mainPc = "returned_err"
    /\ mainPc' = "shutdown"
    /\ sdPc' = [sdPc EXCEPT !["main"] = "close_shutdown"]
    /\ UNCHANGED << cacheVars, unitVars, config, filterVars, cacheEntries, conns, logLines, loggerClosed,
                    listenerClosed, shutdownClosed, wg, mainConn, acceptErr, sigPc,
                    wpShutdownClosed, queue, queueClosed, workers, exit >>

\* main: os.Exit(1) after its Shutdown call returned.
MainExit ==
    /\ Running
    /\ mainPc = "shutdown"
    /\ sdPc["main"] = "returned"
    /\ exit' = [code |-> 1, why |-> "os.Exit(1)"]
    /\ UNCHANGED << cacheVars, unitVars, config, filterVars, cacheEntries, conns, logLines, loggerClosed,
                    listenerClosed, shutdownClosed, wg, mainPc, mainConn, acceptErr,
                    sigPc, sdPc, wpShutdownClosed, queue, queueClosed, workers >>

\* The signal goroutine: SIGINT or SIGTERM arrives, it calls server.Shutdown().
Signal ==
    /\ Running
    /\ sigPc = "wait"
    /\ sigPc' = "shutdown"
    /\ sdPc' = [sdPc EXCEPT !["sig"] = "close_shutdown"]
    /\ UNCHANGED << cacheVars, unitVars, config, filterVars, cacheEntries, conns, logLines, loggerClosed,
                    listenerClosed, shutdownClosed, wg, mainPc, mainConn, acceptErr,
                    wpShutdownClosed, queue, queueClosed, workers, exit >>

\* The signal goroutine: os.Exit(0) after its Shutdown call returned.
SignalExit ==
    /\ Running
    /\ sigPc = "shutdown"
    /\ sdPc["sig"] = "returned"
    /\ exit' = [code |-> 0, why |-> "os.Exit(0)"]
    /\ UNCHANGED << cacheVars, unitVars, config, filterVars, cacheEntries, conns, logLines, loggerClosed,
                    listenerClosed, shutdownClosed, wg, mainPc, mainConn, acceptErr,
                    sigPc, sdPc, wpShutdownClosed, queue, queueClosed, workers >>

\* Server.Shutdown: close(s.shutdown). Closing a closed channel panics.
SdCloseShutdown(p) ==
    /\ Running
    /\ sdPc[p] = "close_shutdown"
    /\ IF shutdownClosed
       THEN /\ exit' = Panic("close of closed channel")
            /\ UNCHANGED << shutdownClosed, sdPc >>
       ELSE /\ shutdownClosed' = TRUE
            /\ sdPc' = [sdPc EXCEPT ![p] = "close_listener"]
            /\ exit' = exit
    /\ UNCHANGED << cacheVars, unitVars, config, filterVars, cacheEntries, conns, logLines, loggerClosed,
                    listenerClosed, wg, mainPc, mainConn, acceptErr, sigPc,
                    wpShutdownClosed, queue, queueClosed, workers >>

\* Server.Shutdown: s.listener.Close(); then the pool, if there is one.
SdCloseListener(p) ==
    /\ Running
    /\ sdPc[p] = "close_listener"
    /\ listenerClosed' = TRUE
    /\ sdPc' = [sdPc EXCEPT ![p] = IF config.ConcurrencyModel = ThreadPool
                                   THEN "pool_close_shutdown" ELSE "wg_wait"]
    /\ UNCHANGED << cacheVars, unitVars, config, filterVars, cacheEntries, conns, logLines, loggerClosed,
                    shutdownClosed, wg, mainPc, mainConn, acceptErr, sigPc,
                    wpShutdownClosed, queue, queueClosed, workers, exit >>

\* WorkerPool.Shutdown: close(wp.shutdown).
SdPoolCloseShutdown(p) ==
    /\ Running
    /\ sdPc[p] = "pool_close_shutdown"
    /\ IF wpShutdownClosed
       THEN /\ exit' = Panic("close of closed channel")
            /\ UNCHANGED << wpShutdownClosed, sdPc >>
       ELSE /\ wpShutdownClosed' = TRUE
            /\ sdPc' = [sdPc EXCEPT ![p] = "pool_close_queue"]
            /\ exit' = exit
    /\ UNCHANGED << cacheVars, unitVars, config, filterVars, cacheEntries, conns, logLines, loggerClosed,
                    listenerClosed, shutdownClosed, wg, mainPc, mainConn, acceptErr,
                    sigPc, queue, queueClosed, workers >>

\* WorkerPool.Shutdown: close(wp.workQueue).
SdPoolCloseQueue(p) ==
    /\ Running
    /\ sdPc[p] = "pool_close_queue"
    /\ IF queueClosed
       THEN /\ exit' = Panic("close of closed channel")
            /\ UNCHANGED << queueClosed, sdPc >>
       ELSE /\ queueClosed' = TRUE
            /\ sdPc' = [sdPc EXCEPT ![p] = "pool_wait"]
            /\ exit' = exit
    /\ UNCHANGED << cacheVars, unitVars, config, filterVars, cacheEntries, conns, logLines, loggerClosed,
                    listenerClosed, shutdownClosed, wg, mainPc, mainConn, acceptErr,
                    sigPc, wpShutdownClosed, queue, workers >>

\* WorkerPool.Shutdown: wp.wg.Wait() returns once every worker has exited.
SdPoolWait(p) ==
    /\ Running
    /\ sdPc[p] = "pool_wait"
    /\ \A w \in DOMAIN workers : workers[w].pc = "exited"
    /\ sdPc' = [sdPc EXCEPT ![p] = "wg_wait"]
    /\ UNCHANGED << cacheVars, unitVars, config, filterVars, cacheEntries, conns, logLines, loggerClosed,
                    listenerClosed, shutdownClosed, wg, mainPc, mainConn, acceptErr,
                    sigPc, wpShutdownClosed, queue, queueClosed, workers, exit >>

\* Server.Shutdown: s.wg.Wait() returns when the counter is zero.
SdWgWait(p) ==
    /\ Running
    /\ sdPc[p] = "wg_wait"
    /\ wg = 0
    /\ sdPc' = [sdPc EXCEPT ![p] = "logger_close"]
    /\ UNCHANGED << cacheVars, unitVars, config, filterVars, cacheEntries, conns, logLines, loggerClosed,
                    listenerClosed, shutdownClosed, wg, mainPc, mainConn, acceptErr,
                    sigPc, wpShutdownClosed, queue, queueClosed, workers, exit >>

\* Server.Shutdown: s.logger.Close(), and the return.
SdLoggerClose(p) ==
    /\ Running
    /\ sdPc[p] = "logger_close"
    /\ loggerClosed' = TRUE
    /\ sdPc' = [sdPc EXCEPT ![p] = "returned"]
    /\ UNCHANGED << cacheVars, unitVars, config, filterVars, cacheEntries, conns, logLines,
                    listenerClosed, shutdownClosed, wg, mainPc, mainConn, acceptErr,
                    sigPc, wpShutdownClosed, queue, queueClosed, workers, exit >>

\* The workers a pool can have.
WorkerIds == 1..MaxPoolSize

\* WorkerPool.worker, the select's first arm: wp.shutdown is closed, return
\* (the deferred wp.wg.Done()).
WorkerExit(w) ==
    /\ Running
    /\ w \in DOMAIN workers
    /\ workers[w].pc = "select"
    /\ wpShutdownClosed
    /\ workers' = [workers EXCEPT ![w].pc = "exited"]
    /\ UNCHANGED << cacheVars, unitVars, config, filterVars, cacheEntries, conns, logLines, loggerClosed,
                    wg, lifecycleVars, exit >>

\* WorkerPool.worker, the select's second arm with a connection in the queue:
\* the worker calls the handler with it.
WorkerTake(w) ==
    /\ Running
    /\ w \in DOMAIN workers
    /\ workers[w].pc = "select"
    /\ queue # << >>
    /\ workers' = [workers EXCEPT ![w] = [pc |-> "handling", conn |-> Head(queue)]]
    /\ conns' = [conns EXCEPT ![Head(queue)].st = "run"]
    /\ queue' = Tail(queue)
    /\ UNCHANGED << cacheVars, unitVars, config, filterVars, cacheEntries, logLines, loggerClosed, wg,
                    listenerClosed, shutdownClosed, mainPc, mainConn, acceptErr, sigPc,
                    sdPc, wpShutdownClosed, queueClosed, exit >>

\* WorkerPool.worker, the select's second arm on the closed, empty queue: the
\* receive yields a nil connection and the handler's first use of it
\* (defer conn.Close()) panics.
WorkerTakeNil(w) ==
    /\ Running
    /\ w \in DOMAIN workers
    /\ workers[w].pc = "select"
    /\ queue = << >>
    /\ queueClosed
    /\ exit' = Panic("nil pointer dereference")
    /\ UNCHANGED << cacheVars, unitVars, config, filterVars, cacheEntries, conns, logLines, loggerClosed,
                    wg, lifecycleVars, workers >>

\* The configurations the lifecycle is checked under.
LifecycleConfigs ==
    [ ConcurrencyModel    : { ThreadPerConnection, ThreadPool },
      ThreadPoolSize      : 1..MaxPoolSize,
      EnableCaching       : { FALSE },
      EnableConnectTunnel : { FALSE },
      AuthToken           : { << >> } ]

\* The server after NewServer and the first part of Start: the listener is
\* bound, the pool workers (thread_pool mode) are started, the accept loop
\* is at its select and the signal goroutine waits for a signal.
Init ==
    /\ config \in LifecycleConfigs
    /\ blockedDomains = { HostBT }
    /\ blockedIPs = {}
    /\ cacheEntries = << >>
    /\ conns = [c \in ConnIds |-> IdleConn]
    /\ logLines = << >>
    /\ loggerClosed = FALSE
    /\ listenerClosed = FALSE
    /\ shutdownClosed = FALSE
    /\ wg = 0
    /\ mainPc = "select"
    /\ mainConn = 0
    /\ acceptErr = ""
    /\ sigPc = "wait"
    /\ sdPc = [p \in {"sig", "main"} |-> "idle"]
    /\ wpShutdownClosed = FALSE
    /\ queue = << >>
    /\ queueClosed = FALSE
    /\ workers = IF config.ConcurrencyModel = ThreadPool
                 THEN [w \in 1..config.ThreadPoolSize |-> [pc |-> "select", conn |-> 0]]
                 ELSE << >>
    /\ exit = [code |-> -1, why |-> ""]
    /\ CacheUnused
    /\ UnitsUnused

Next ==
    \/ LoopSelect
    \/ AcceptTimeout
    \/ AcceptConn
    \/ AcceptError
    \/ DispatchGoroutine
    \/ DispatchSubmit
    \/ MainReturn
    \/ MainCallsShutdown
    \/ MainExit
    \/ Signal
    \/ SignalExit
    \/ \E p \in {"sig", "main"} :
          \/ SdCloseShutdown(p)
          \/ SdCloseListener(p)
          \/ SdPoolCloseShutdown(p)
          \/ SdPoolCloseQueue(p)
          \/ SdPoolWait(p)
          \/ SdWgWait(p)
          \/ SdLoggerClose(p)
    \/ \E w \in WorkerIds : WorkerExit(w) \/ WorkerTake(w) \/ WorkerTakeNil(w)
    \/ \E c \in ConnIds : HandleRequest(c) \/ HandleLog(c) \/ HandleExit(c)

\* The whole server: accept loop, dispatch, handlers, pool, shutdown, main.
Spec == Init /\ [][Next]_vars

\* ------------------------------------------------- the WorkerPool, loaded
\* The pool under a burst of submits issued one after another by one caller,
\* with no shutdown: the workers run handleConnection on connections that
\* carry one of AcceptRequests, and a handler may stay blocked in its read
\* for as long as the burst lasts.

MaxSubmits == 4

SubmitIds == 1..MaxSubmits

\* The caller's next Submit: mainConn counts the submits made.
PoolSubmit ==
    /\ Running
    /\ mainPc = "submit"
    /\ mainConn < MaxSubmits
    /\ IF queueClosed
       THEN /\ exit' = Panic("send on closed channel")
            /\ UNCHANGED << conns, queue, mainConn >>
       ELSE /\ \E raw \in AcceptRequests :
                 LET r == SubmitEffect([conns[mainConn + 1] EXCEPT !.raw = raw],
                                       queue, QueueCap)
                 IN  /\ conns' = [conns EXCEPT ![mainConn + 1] = r.conn]
                     /\ queue' = IF r.queued THEN Append(queue, mainConn + 1) ELSE queue
            /\ mainConn' = mainConn + 1
            /\ exit' = exit
    /\ UNCHANGED << cacheVars, unitVars, config, filterVars, cacheEntries, logLines, loggerClosed,
                    listenerClosed, shutdownClosed, wg, mainPc, acceptErr, sigPc, sdPc,
                    wpShutdownClosed, queueClosed, workers >>

\* NewWorkerPool(size, server.handleConnection) and Start: the workers wait
\* at their select, the queue is empty, nothing has been submitted.
InitPool ==
    /\ config \in [ ConcurrencyModel    : { ThreadPool },
                    ThreadPoolSize      : 1..MaxPoolSize,
                    EnableCaching       : { FALSE },
                    EnableConnectTunnel : { FALSE },
                    AuthToken           : { << >> } ]
    /\ blockedDomains = { HostBT }
    /\ blockedIPs = {}
    /\ cacheEntries = << >>
    /\ conns = [c \in SubmitIds |-> IdleConn]
    /\ logLines = << >>
    /\ loggerClosed = FALSE
    /\ listenerClosed = FALSE
    /\ shutdownClosed = FALSE
    /\ wg = 0
    /\ mainPc = "submit"
    /\ mainConn = 0
    /\ acceptErr = ""
    /\ sigPc = "wait"
    /\ sdPc = [p \in {"sig", "main"} |-> "idle"]
    /\ wpShutdownClosed = FALSE
    /\ queue = << >>
    /\ queueClosed = FALSE
    /\ workers = [w \in 1..config.ThreadPoolSize |-> [pc |-> "select", conn |-> 0]]
    /\ exit = [code |-> -1, why |-> ""]
    /\ CacheUnused
    /\ UnitsUnused

NextPool ==
    \/ PoolSubmit
    \/ \E w \in WorkerIds : WorkerTake(w)
    \/ \E c \in SubmitIds : HandleRequest(c) \/ HandleLog(c) \/ HandleExit(c)

\* The WorkerPool under a burst of submits.
SpecPool == InitPool /\ [][NextPool]_vars

\* ------------------------------------------------------- the Cache, called
\* A Cache and the callers of its Put, Get and Clear. The mutex makes every
\* call one step; the callers share the entry objects of the heap and may
\* change the Body of one between calls.

MaxCacheCalls == 4

CacheKeys == { "K1", "K2", "K3" }

\* NewCache's argument, Config.CacheMaxEntries (at least 1 by Validate).
CacheMaxEntriesChoices == { 1, 2 }

\* Body lengths of an entry: a quarter of maxSize, three quarters, and one
\* byte more than maxSize.
BodySizes == { MaxCacheSize \div 4, (3 * MaxCacheSize) \div 4, MaxCacheSize + 1 }

\* The bytes of an entry's header names and values.
HeaderBytesOfEntry == 16

\* The last two of a sequence of calls.
LastTwo(cs) == IF Len(cs) > 2 THEN SubSeq(cs, Len(cs) - 1, Len(cs)) ELSE cs

\* The record of one call: what was called with what, and what it returned.
CallRecord(op, key, entry, found, hung) ==
    [op |-> op, key |-> key, entry |-> entry, found |-> found, hung |-> hung]

\* The order of last uses after a use of key k: k is the latest.
UsedNow(uses, k) == Append(SelectSeq(uses, LAMBDA x : x # k), k)

\* The keys of `order` that the map `entries` holds, in their order.
StoredOf(order, entries) == SelectSeq(order, LAMBDA k : k \in DOMAIN entries)

\* What the server's variables are while only the cache is exercised.
ServerIdle ==
    /\ config = [ConcurrencyModel |-> ThreadPerConnection, ThreadPoolSize |-> 1,
                 EnableCaching |-> TRUE, EnableConnectTunnel |-> FALSE,
                 AuthToken |-> << >>]
    /\ blockedDomains = {}
    /\ blockedIPs = {}
    /\ cacheEntries = << >>
    /\ conns = [c \in ConnIds |-> IdleConn]
    /\ logLines = << >>
    /\ loggerClosed = FALSE
    /\ listenerClosed = FALSE
    /\ shutdownClosed = FALSE
    /\ wg = 0
    /\ mainPc = "select"
    /\ mainConn = 0
    /\ acceptErr = ""
    /\ sigPc = "wait"
    /\ sdPc = [p \in {"sig", "main"} |-> "idle"]
    /\ wpShutdownClosed = FALSE
    /\ queue = << >>
    /\ queueClosed = FALSE
    /\ workers = << >>
    /\ exit = [code |-> -1, why |-> ""]

serverVars == << config, blockedDomains, blockedIPs, cacheEntries, conns, logLines,
                 loggerClosed, listenerClosed, shutdownClosed, wg, mainPc, mainConn,
                 acceptErr, sigPc, sdPc, wpShutdownClosed, queue, queueClosed,
                 workers, exit >>

\* A caller calls Put(key, entry) with the entry object o.
PutCall(key, o) ==
    /\ ~lruCache.hung
    /\ nCalls < MaxCacheCalls
    /\ LET r == CachePut(lruCache, heap, key, o, nCalls + 1)
       IN  /\ lruCache' = r.cache
           /\ heap' = r.heap
           /\ calls' = LastTwo(Append(calls, CallRecord("Put", key, o, FALSE, r.cache.hung)))
           /\ recency' = StoredOf(UsedNow(recency, key), r.cache.entries)
    /\ nCalls' = nCalls + 1
    /\ UNCHANGED << serverVars, unitVars >>

\* A caller calls Get(key).
GetCall(key) ==
    /\ ~lruCache.hung
    /\ nCalls < MaxCacheCalls
    /\ LET r == CacheGet(lruCache, heap, key, nCalls + 1)
       IN  /\ lruCache' = r.cache
           /\ heap' = r.heap
           /\ calls' = LastTwo(Append(calls, CallRecord("Get", key, r.entry, r.found, FALSE)))
           /\ recency' = IF r.found THEN UsedNow(recency, key) ELSE recency
    /\ nCalls' = nCalls + 1
    /\ UNCHANGED << serverVars, unitVars >>

\* A caller calls Clear.
ClearCall ==
    /\ ~lruCache.hung
    /\ nCalls < MaxCacheCalls
    /\ lruCache' = CacheClear(lruCache)
    /\ calls' = LastTwo(Append(calls, CallRecord("Clear", "", 0, FALSE, FALSE)))
    /\ recency' = << >>
    /\ nCalls' = nCalls + 1
    /\ UNCHANGED << heap, serverVars, unitVars >>

\* A caller that holds the entry object o (it built it, or Get returned it)
\* gives it another Body.
ModifyEntry(o, body) ==
    /\ nCalls < MaxCacheCalls
    /\ heap[o].Body # body
    /\ heap' = [heap EXCEPT ![o].Body = body]
    /\ UNCHANGED << lruCache, calls, nCalls, recency, serverVars, unitVars >>

InitCache ==
    /\ ServerIdle
    /\ UnitsUnused
    /\ \E m \in CacheMaxEntriesChoices : lruCache = NewCache(m)
    /\ heap = [o \in ObjIds |->
                 [NoObject EXCEPT !.Body = MaxCacheSize \div 4,
                                  !.HeaderBytes = HeaderBytesOfEntry]]
    /\ calls = << >>
    /\ nCalls = 0
    /\ recency = << >>

NextCache ==
    \/ \E key \in CacheKeys, o \in ObjIds : PutCall(key, o)
    \/ \E key \in CacheKeys : GetCall(key)
    \/ ClearCall
    \/ \E o \in ObjIds, body \in BodySizes : ModifyEntry(o, body)

\* The Cache under every sequence of calls.
SpecCache == InitCache /\ [][NextCache]_vars

\* ------------------------------------------------------------ the filter

\* A file LoadRules reads to its end.
FileOf(lines) == [exists |-> TRUE, readable |-> TRUE, lines |-> lines, readErr |-> FALSE]

HostMT == <<"m",".","t">>

HostXMT == <<"x","m",".","t">>

HostAMTSpaced == <<" ","A",".","m",".","T"," ">>

WildMT == <<"*",".","m",".","t">>

WildT == <<"*",".","t">>

\* A comment, a blank line, a domain in upper case with an inline comment,
\* and an IP address.
FileExact ==
    FileOf(<< <<"#"," ","c">>, << >>, <<" ","B",".","T"," ","#","x">>, HostIP >>)

\* One wildcard rule.
FileOneWild == FileOf(<< WildMT >>)

\* Two wildcard rules that overlap.
FileTwoWild == FileOf(<< WildMT, WildT >>)

\* The files LoadRules is called on: none at the path, one that cannot be
\* opened, an empty one, the three above, and one whose read fails after
\* its first line.
RuleFiles ==
    { NoFile,
      [NoFile EXCEPT !.exists = TRUE],
      FileOf(<< >>),
      FileExact,
      FileOneWild,
      FileTwoWild,
      [FileOf(<< HostOK >>) EXCEPT !.readErr = TRUE] }

\* The hosts IsBlocked is asked about.
FilterHosts == { HostBT, HostBTUpper, HostAMT, HostAMTSpaced, HostMT, HostXMT,
                 HostOK, HostIP }

\* Everything but the filter and the record of its calls.
besideFilter == << config, cacheEntries, conns, logLines, loggerClosed, wg, workers,
                   exit, lifecycleVars, cacheVars, relay, tunnel, logger >>

\* A caller calls LoadRules on the path, where `file` is.
LoadRulesCall(file) ==
    /\ LET r == LoadRules(blockedDomains, blockedIPs, file)
       IN  /\ blockedDomains' = r.domains
           /\ blockedIPs' = r.ips
           /\ lastLoad' = [called |-> TRUE, file |-> file, err |-> r.err]
    /\ lookups' = IF lastLoad.called /\ lastLoad.file = file THEN lookups ELSE << >>
    /\ UNCHANGED besideFilter

\* A caller calls IsBlocked(host).
IsBlockedCall(host) ==
    /\ \E r \in IsBlocked(blockedDomains, blockedIPs, host) :
          lookups' = LastTwo(Append(lookups,
                         [host |-> host, blocked |-> r.blocked, rule |-> r.rule]))
    /\ UNCHANGED << filterVars, lastLoad, besideFilter >>

\* A filter as NewFilter builds it.
InitFilter ==
    /\ ServerIdle
    /\ CacheUnused
    /\ UnitsUnused

NextFilter ==
    \/ \E file \in RuleFiles : LoadRulesCall(file)
    \/ \E host \in FilterHosts : IsBlockedCall(host)

\* The Filter under every sequence of LoadRules and IsBlocked calls.
SpecFilter == InitFilter /\ [][NextFilter]_vars

\* --------------------------------------------------- the relayed response

\* The request that is forwarded: GET http://o.k/ without headers.
RelayRequest == ParseHTTPRequest(Wire(RequestLine(MethodGET, SchemeHTTP \o HostOK \o <<"/">>),
                                      << >>))

\* Responses the upstream sends: the samples of the handler, and complete
\* ones (status line, header lines, blank line, body) with the body read in
\* one, two or three pieces or absent.
RelayStreams ==
    UpstreamStreams \cup
    { << StatusLine200, HeaderLineX, BlankLine, <<"h">>, <<"i">> >>,
      << StatusLine200, HeaderLineX, BlankLine, <<"h">>, <<"i","!">>, <<"\n">> >>,
      << StatusLine404, BlankLine >>,
      << StatusLine200, HeaderLineX, HeaderLineX, <<"\n">>, <<"\r","\n">> >> }

\* What the upstream and the client connection do for the forwarded request.
RelayUpstreams ==
    { [dialOk |-> TRUE, sendOk |-> TRUE, stream |-> s, end |-> e, clientFailAt |-> k,
       cut |-> n] :
        s \in RelayStreams, e \in {"eof", "error"}, k \in {0, 2, 5}, n \in 0..3 }

\* Everything but the relayed response.
besideRelay == << serverVars, cacheVars, lastLoad, lookups, tunnel, logger >>

\* The relay after handleConnection has taken the path r.
Relayed(rl, r) == [rl EXCEPT !.pc = "done", !.out = r.writes, !.logged = r.logs]

\* handleConnection from the call of ForwardRequest to its last logRequest.
RelayForward ==
    /\ relay.pc = "forward"
    /\ relay' = Relayed(relay, OnForward(RelayRequest, relay.up))
    /\ UNCHANGED besideRelay

\* handleConnection is about to call ForwardRequest.
InitRelay ==
    /\ ServerIdle
    /\ CacheUnused
    /\ FilterUnused
    /\ TunnelUnused
    /\ LoggerUnused
    /\ \E up \in RelayUpstreams : relay = [NoRelay EXCEPT !.pc = "forward", !.up = up]

NextRelay == RelayForward

\* One forwarded request under every upstream and client behaviour.
SpecRelay == InitRelay /\ [][NextRelay]_vars

\* ------------------------------------------------------------ the tunnel

\* The bytes either copy relays at most.
MaxTunnelBytes == 2

TunnelByte == << "x" >>

TunnelPayload == << "p", "q" >>

\* Everything but the tunnel.
besideTunnel == << serverVars, cacheVars, lastLoad, lookups, relay, logger >>

\* The status HandleCONNECT answers the dial with, always 200.
ConnectReplyAlways200(dialOk) == 200

\* The status HandleCONNECT answers the dial with.
ConnectReply(dialOk) == IF dialOk THEN 200 ELSE 502

\* HandleCONNECT: done := make(chan error, 2).
DoneCap == 2

\* A send on done when the channel has no buffer: it completes only while
\* HandleCONNECT waits at its receive.
CanSendUnbuffered(done, pc) == pc = "wait" /\ done = << >>

\* The send done <- err of a copy goroutine can proceed: the buffer of the
\* channel has room.
CanSend(done, pc) == Len(done) < DoneCap

\* The receive of HandleCONNECT, waiting for both copies.
CanReceiveBoth(done) == Len(done) = 2

\* The receive err = <-done of HandleCONNECT can proceed.
CanReceive(done) == Len(done) >= 1

\* HandleCONNECT, net.DialTimeout. On failure the 502 line is written (the
\* result of the write is ignored) and the error returned.
TunDial(dialOk, writeOk) ==
    /\ tunnel.pc = "dial"
    /\ tunnel' = IF dialOk
                 THEN [tunnel EXCEPT !.pc = "reply", !.dialed = "ok",
                                     !.upstream = "open"]
                 ELSE [tunnel EXCEPT !.pc = "returned", !.dialed = "failed",
                                     !.err = TRUE,
                                     !.out = IF writeOk
                                             THEN << ConnectWrite(ConnectReply(dialOk)) >>
                                             ELSE << >>]
    /\ UNCHANGED besideTunnel

\* HandleCONNECT, the write of the 200 line. When it fails the error is
\* returned and the deferred upstreamConn.Close() runs; else the two copy
\* goroutines are started and the receive from done is reached.
TunReply(writeOk) ==
    /\ tunnel.pc = "reply"
    /\ tunnel' = IF writeOk
                 THEN [tunnel EXCEPT !.pc = "wait",
                                     !.out = << ConnectWrite(ConnectReply(TRUE)) >>,
                                     !.copy = [d \in {"c2u", "u2c"} |-> "run"]]
                 ELSE [tunnel EXCEPT !.pc = "returned", !.err = TRUE,
                                     !.upstream = "closed"]
    /\ UNCHANGED besideTunnel

\* io.Copy(upstreamConn, clientConn) moves one byte: the next one that
\* clientConn.Read returns, which is the first the bufio.Reader of
\* handleConnection has not taken from the connection.
CopyToUpstream ==
    /\ tunnel.copy["c2u"] = "run"
    /\ tunnel.upstream = "open" /\ tunnel.client = "open"
    /\ tunnel.toUp < MaxTunnelBytes
    /\ tunnel.buffered + tunnel.toUp < Len(tunnel.wire)
    /\ tunnel' = [tunnel EXCEPT !.toUp = @ + 1]
    /\ UNCHANGED besideTunnel

\* io.Copy(clientConn, upstreamConn) moves one byte.
CopyToClient ==
    /\ tunnel.copy["u2c"] = "run"
    /\ tunnel.upstream = "open" /\ tunnel.client = "open"
    /\ Len(tunnel.out) <= MaxTunnelBytes
    /\ tunnel' = [tunnel EXCEPT !.out = Append(@, RelayWrite(TunnelByte))]
    /\ UNCHANGED besideTunnel

\* io.Copy of direction d returns and its result is sent on done: nil when
\* its source reached EOF, an error when a read or write failed, which is
\* all that can happen once one of the two connections is closed.
CopyFinish(d, res) ==
    /\ tunnel.copy[d] = "run"
    /\ res = "nil" => tunnel.upstream = "open" /\ tunnel.client = "open"
    /\ CanSend(tunnel.done, tunnel.pc)
    /\ tunnel' = [tunnel EXCEPT !.copy[d] = "done", !.done = Append(@, res)]
    /\ UNCHANGED besideTunnel

\* HandleCONNECT receives from done and returns; upstreamConn is closed by
\* the defer.
TunReturn ==
    /\ tunnel.pc = "wait"
    /\ CanReceive(tunnel.done)
    /\ tunnel' = [tunnel EXCEPT !.pc = "returned",
                                !.err = tunnel.done[1] = "err",
                                !.done = Tail(@),
                                !.upstream = "closed"]
    /\ UNCHANGED besideTunnel

\* handleConnection logs the outcome of HandleCONNECT.
TunLog ==
    /\ tunnel.pc = "returned"
    /\ tunnel' = [tunnel EXCEPT !.pc = "logged",
                                !.logged = Append(@, IF tunnel.err
                                                     THEN [Action |-> "ERROR", Status |-> 0]
                                                     ELSE [Action |-> "ALLOWED", Status |-> 200])]
    /\ UNCHANGED besideTunnel

\* handleConnection returns: the deferred conn.Close() runs.
TunExit ==
    /\ tunnel.pc = "logged"
    /\ tunnel' = [tunnel EXCEPT !.pc = "done", !.client = "closed"]
    /\ UNCHANGED besideTunnel

\* What a client sends after the request line of its CONNECT: the blank
\* line alone; the blank line and two bytes for the upstream; a header line,
\* the blank line and the two bytes.
ClientWires ==
    { BlankLine,
      BlankLine \o TunnelPayload,
      HeaderLineX \o BlankLine \o TunnelPayload }

\* handleConnection is about to call HandleCONNECT for an allowed CONNECT.
\* ParseHTTPRequest has returned after the request line; the reads its
\* bufio.Reader made to find the end of that line took as much from the
\* connection as had arrived, any number of the bytes that follow the line.
InitTunnel ==
    /\ ServerIdle
    /\ CacheUnused
    /\ FilterUnused
    /\ RelayUnused
    /\ LoggerUnused
    /\ \E w \in ClientWires :
          \E b \in 0..Len(w) :
              tunnel = [NoTunnel EXCEPT !.pc = "dial", !.wire = w, !.buffered = b]

NextTunnel ==
    \/ \E dialOk \in BOOLEAN, writeOk \in BOOLEAN : TunDial(dialOk, writeOk)
    \/ \E writeOk \in BOOLEAN : TunReply(writeOk)
    \/ CopyToUpstream
    \/ CopyToClient
    \/ \E d \in {"c2u", "u2c"}, res \in {"nil", "err"} : CopyFinish(d, res)
    \/ TunReturn
    \/ TunLog
    \/ TunExit

\* One CONNECT from the call of HandleCONNECT to the end of both copies.
SpecTunnel == InitTunnel /\ [][NextTunnel]_vars

\* The connection a copy reads from.
CopySource(d) == IF d = "c2u" THEN tunnel.client ELSE tunnel.upstream

\* The copy of direction d ends because the connection it reads from has
\* been closed: its Read returns an error, io.Copy returns it and the
\* goroutine sends it on done.
CopyEnds(d) == CopySource(d) = "closed" /\ CopyFinish(d, "err")

\* SpecTunnel, where a goroutine that can run does: a copy whose source is
\* closed ends.
SpecTunnelLive ==
    SpecTunnel /\ WF_vars(CopyEnds("c2u")) /\ WF_vars(CopyEnds("u2c"))

\* ------------------------------------------------------------ the logger

\* The calls of Log made at most.
MaxLogCalls == 3

\* The bytes of one MB of max_size_mb.
BytesPerMB == 1048576

\* The lengths of the lines formatLogEntry builds.
LineLengths == { 9, 19 }

\* The sizes of the log file NewLogger finds: none or empty, ten bytes
\* below one MB, one MB.
InitialLogSizes == { 0, BytesPerMB - 10, BytesPerMB }

\* Everything but the logger.
besideLogger == << serverVars, cacheVars, lastLoad, lookups, relay, tunnel >>

\* Logger.rotate on the logger l: the file is closed; os.Rename moves the
\* file at filePath away unless it fails (its result is ignored); OpenFile
\* with O_CREATE|O_WRONLY creates a file when none is at filePath and
\* otherwise opens the one that is there, as it is, at offset 0; only when
\* it succeeds are file and currentSize replaced.
Rotate(l, renameOk, openOk) ==
    LET renamed == renameOk /\ l.atPath # 0
        left    == IF renamed THEN 0 ELSE l.atPath
        created == left = 0
        newId   == Len(l.sizes) + 1
    IN  IF openOk
        THEN [l EXCEPT !.atPath = IF created THEN newId ELSE left,
                       !.sizes = IF created THEN Append(@, 0) ELSE @,
                       !.handle = [file |-> IF created THEN newId ELSE left,
                                   offset |-> 0, append |-> FALSE, closed |-> FALSE],
                       !.currentSize = 0]
        ELSE [l EXCEPT !.atPath = left, !.handle.closed = TRUE]

\* The test of Log that calls rotate.
MustRotate(l) == l.currentSize >= l.maxSizeMB * BytesPerMB

\* fmt.Fprintln(l.file, line) and l.file.Sync() by caller p: n = len(line)+1
\* bytes go to the end of the file (O_APPEND) or to the offset of the
\* handle; nothing is written through a closed file, and the error is
\* dropped.
Fprintln(l, p) ==
    LET h   == l.handle
        n   == l.callers[p].len + 1
        pos == IF h.append THEN l.sizes[h.file] ELSE h.offset
    IN  IF h.closed THEN l
        ELSE [l EXCEPT !.sizes[h.file] = IF pos + n > @ THEN pos + n ELSE @,
                       !.handle.offset = pos + n,
                       !.written = Append(@, [caller |-> p, file |-> h.file])]

\* Log, l.mu.Lock(): caller p enters Log with a line of length len.
LogLock(p, len) ==
    /\ logger.pc = "open"
    /\ logger.callers[p].pc = "idle"
    /\ Len(logger.acquired) < MaxLogCalls
    /\ logger.mu = 0
    /\ logger' = [logger EXCEPT !.mu = p,
                                !.callers[p] = [pc |-> "check", len |-> len],
                                !.acquired = Append(@, p)]
    /\ UNCHANGED besideLogger

\* Log, the size test and the rotation it calls for.
LogRotate(p, renameOk, openOk) ==
    /\ logger.callers[p].pc = "check"
    /\ logger' = [(IF MustRotate(logger) THEN Rotate(logger, renameOk, openOk)
                   ELSE logger)
                  EXCEPT !.callers[p].pc = "write"]
    /\ UNCHANGED besideLogger

\* Log, the write of the line.
LogWrite(p) ==
    /\ logger.callers[p].pc = "write"
    /\ logger' = [Fprintln(logger, p) EXCEPT !.callers[p].pc = "count"]
    /\ UNCHANGED besideLogger

\* Log, l.currentSize += int64(len(line) + 1).
LogCount(p) ==
    /\ logger.callers[p].pc = "count"
    /\ logger' = [logger EXCEPT !.currentSize = @ + logger.callers[p].len + 1,
                                !.callers[p].pc = "unlock"]
    /\ UNCHANGED besideLogger

\* Log returns: the deferred l.mu.Unlock().
LogUnlock(p) ==
    /\ logger.callers[p].pc = "unlock"
    /\ logger' = [logger EXCEPT !.mu = 0, !.callers[p] = IdleCaller]
    /\ UNCHANGED besideLogger

\* Logger.Close, from Server.Shutdown: under the mutex, the file is closed.
LoggerClose ==
    /\ logger.pc = "open"
    /\ ~logger.closeCalled
    /\ logger.mu = 0
    /\ logger' = [logger EXCEPT !.handle.closed = TRUE, !.closeCalled = TRUE]
    /\ UNCHANGED besideLogger

\* NewLogger with max_size_mb = 1 on a path where a file of one of the
\* initial sizes is (created empty when there was none).
InitLogger ==
    /\ ServerIdle
    /\ CacheUnused
    /\ FilterUnused
    /\ RelayUnused
    /\ TunnelUnused
    /\ \E size \in InitialLogSizes :
          logger = [NoLogger EXCEPT !.pc = "open", !.maxSizeMB = 1,
                                    !.currentSize = size,
                                    !.handle = [file |-> 1, offset |-> 0,
                                                append |-> TRUE, closed |-> FALSE],
                                    !.atPath = 1,
                                    !.sizes = << size >>]

NextLogger ==
    \/ \E p \in LogCallers, len \in LineLengths : LogLock(p, len)
    \/ \E p \in LogCallers, renameOk \in BOOLEAN, openOk \in BOOLEAN :
          LogRotate(p, renameOk, openOk)
    \/ \E p \in LogCallers : LogWrite(p)
    \/ \E p \in LogCallers : LogCount(p)
    \/ \E p \in LogCallers : LogUnlock(p)
    \/ LoggerClose

\* A Logger under concurrent callers of Log and one call of Close.
SpecLogger == InitLogger /\ [][NextLogger]_vars

\* ================================================================= claims
\* The claims about the per-connection routine are checked under SpecHandler.

\* The request of connection c as the parser returned it to the handler.
Req(c) == conns[c].req

\* The handler of c has made its calls of logRequest and is at, or past, its
\* return.
Logged(c) == conns[c].st \in {"exit", "done"}

\* The lines of the log file that connection c's handler appended.
LinesOf(c) == SelectSeq(logLines, LAMBDA l : l.conn = c)

\* A block-list rule matches a (lowercased) host: the rule itself, or for a
\* rule *.X the host X or any host ending in .X.
RuleMatches(rule, h) ==
    \/ rule = h
    \/ /\ HasPrefix(rule, WildcardPrefix)
       /\ \/ h = SubSeq(rule, 3, Len(rule))
          \/ HasSuffix(h, <<".">> \o SubSeq(rule, 3, Len(rule)))

\* The resolved host of c's request matches a rule of the block-list.
HostOnBlockList(c) ==
    /\ Req(c).ok
    /\ \E rule \in blockedDomains \cup blockedIPs :
          RuleMatches(rule, ToLower(TrimSpace(Req(c).Host)))

\* c was answered with exactly the error response `code`, and its handler
\* logged exactly one record, with this action and status.
AnsweredAndLogged(c, code, action) ==
    /\ conns[c].out = << ErrorWrite(code) >>
    /\ conns[c].logCalls = 1
    /\ Len(LinesOf(c)) = 1
    /\ LinesOf(c)[1].entry.Action = action
    /\ LinesOf(c)[1].entry.Status = code

\* c was answered 403 and logged BLOCKED with a rule of the block-list that
\* matches its host; no upstream was dialed.
Answered403(c) ==
    /\ AnsweredAndLogged(c, 403, "BLOCKED")
    /\ LinesOf(c)[1].entry.Rule \in blockedDomains \cup blockedIPs
    /\ RuleMatches(LinesOf(c)[1].entry.Rule, ToLower(TrimSpace(Req(c).Host)))
    /\ conns[c].dials = 0

\* C1, as stated: every request whose resolved host matches a block-list
\* rule is answered 403, logged BLOCKED with the matched rule, and not dialed.
C1_BlockedAlways403 ==
    \A c \in ConnIds : Logged(c) /\ HostOnBlockList(c) => Answered403(c)

\* C1, amended: a request whose resolved host matches a block-list rule is
\* never dialed; if it also passes the authentication check and is not a
\* CONNECT refused because tunneling is off, it is answered 403 and one
\* BLOCKED record carrying a matching rule is logged.
C1_BlockedHostNotDialed ==
    \A c \in ConnIds :
        Logged(c) /\ HostOnBlockList(c) =>
            /\ conns[c].dials = 0
            /\ ( /\ ~AuthFails(config, Req(c))
                 /\ ~(Req(c).IsConnect /\ ~config.EnableConnectTunnel)
                 => Answered403(c) )

\* A CONNECT to a blocked host, spelled in upper case, was answered 403.
C1_Witness ==
    \E c \in ConnIds :
        /\ conns[c].st = "done"
        /\ Req(c).ok
        /\ Req(c).IsConnect
        /\ Req(c).Host = HostBTUpper
        /\ HostOnBlockList(c)
        /\ Answered403(c)

\* The Proxy-Authorization value a request carries on the wire: its header
\* lines read the way the parser reads header lines.
CarriedAuth(c) == HeaderGet(ParseHeaders(conns[c].raw.headerLines), ProxyAuthKey)

\* C2: with a non-empty token, every well-formed request (CONNECT included)
\* that does not carry the token is answered 407 and logged AUTH_FAILED, and
\* every one that carries exactly the token is not answered 407.
C2_AuthDecidedByHeader ==
    \A c \in ConnIds :
        Logged(c) /\ Req(c).ok /\ config.AuthToken # << >> =>
            IF CarriedAuth(c) = config.AuthToken
            THEN \A i \in 1..Len(conns[c].out) : conns[c].out[i] # ErrorWrite(407)
            ELSE AnsweredAndLogged(c, 407, "AUTH_FAILED")

\* C3: with tunneling off, a CONNECT that passes the authentication check is
\* answered 501, logged BLOCKED with the rule "CONNECT not enabled", and no
\* upstream is dialed, whatever the block-list says about its host.
C3_ConnectDisabled501 ==
    \A c \in ConnIds :
        Logged(c) /\ Req(c).ok /\ Req(c).IsConnect /\ ~AuthFails(config, Req(c))
        /\ ~config.EnableConnectTunnel =>
            /\ conns[c].dials = 0
            /\ AnsweredAndLogged(c, 501, "BLOCKED")
            /\ LinesOf(c)[1].entry.Rule = RuleConnectDisabled

\* A CONNECT to a host on the block-list was answered 501 with tunneling off.
C3_Witness ==
    \E c \in ConnIds :
        /\ conns[c].st = "done"
        /\ HostOnBlockList(c)
        /\ Req(c).IsConnect
        /\ ~config.EnableConnectTunnel
        /\ AnsweredAndLogged(c, 501, "BLOCKED")

\* C4: the 502 response is written to a client only if nothing of the
\* upstream's response was written to it before, so a client never gets the
\* 502 status line after relayed response bytes.
C4_No502AfterRelayedBytes ==
    \A c \in ConnIds :
        \A i, j \in 1..Len(conns[c].out) :
            i < j => ~(conns[c].out[i].kind = "relay" /\ conns[c].out[j].kind = "error")

\* C5: every invocation of the per-connection routine has appended exactly
\* one record to the log by the time it returns; only a connection dropped by
\* Submit's full queue has none.
C5_OneLogRecordPerHandler ==
    \A c \in ConnIds :
        /\ Logged(c) => Len(LinesOf(c)) = 1
        /\ conns[c].st = "dropped" => LinesOf(c) = << >>

\* C6: in both concurrency modes a handler that has returned has closed its
\* client connection, a connection is closed by nothing but the handler's
\* return, and nothing is written to a connection once it is closed.
C6_ClosedOnEveryExit ==
    /\ [](\A c \in ConnIds : conns[c].st = "done" <=> conns[c].closed)
    /\ [][\A c \in ConnIds : conns[c].closed => conns'[c].out = conns[c].out]_vars

\* A pool-mode handler returned after a parse failure: 400 written, closed.
C6_Witness ==
    \E c \in ConnIds :
        /\ config.ConcurrencyModel = ThreadPool
        /\ conns[c].st = "done"
        /\ conns[c].closed
        /\ conns[c].out = << ErrorWrite(400) >>

\* The claims about the server's lifecycle are checked under Spec.

\* C7: Server.Shutdown is idempotent; a second call, sequential or concurrent
\* with the first, changes nothing and does not panic.
C7_SecondShutdownHarmless ==
    \A p \in {"sig", "main"} :
        sdPc[p] = "close_shutdown" /\ shutdownClosed =>
            exit # Panic("close of closed channel")

\* C8: the logger is closed only after every handler has finished; once it
\* is closed no handler is running, and every Log call a handler made found
\* the logger open (its line is in the file).
C8_LoggerClosedAfterHandlers ==
    /\ loggerClosed => \A c \in ConnIds : conns[c].st \notin {"run", "log", "exit"}
    /\ \A c \in ConnIds : conns[c].logCalls = Len(LinesOf(c))

\* C9: once Shutdown has been called the accept loop dispatches no further
\* connection (one that Accept returns after s.shutdown was closed stays
\* undispatched), and the loop is left only after a shutdown or an accept
\* error, never after a timeout alone.
C9_NoDispatchAfterShutdown ==
    [][ /\ \A c \in ConnIds :
             conns[c].st = "accepted" /\ conns[c].late => conns'[c].st = "accepted"
        /\ mainPc \in {"select", "accept"} /\ mainPc' \in {"returned_nil", "returned_err"}
             => shutdownClosed \/ acceptErr' # "" ]_vars

\* C10: a shutdown triggered by a signal while the accept loop was running
\* (Start returned nil, or the error of the closed listener) ends the process
\* with exit code 0.
C10_SignalShutdownExitsZero ==
    sigPc # "wait" /\ acceptErr # "other" /\ ~Running => exit.code = 0

\* The claims about the Cache are checked under SpecCache.

\* The keys the cache's map holds.
StoredKeys == DOMAIN lruCache.entries

\* The sum of Size over the entries the map holds under the keys ks.
RECURSIVE SumOfSizes(_)
SumOfSizes(ks) ==
    IF ks = {} THEN 0
    ELSE LET k == CHOOSE x \in ks : TRUE
         IN  heap[lruCache.entries[k]].Size + SumOfSizes(ks \ {k})

\* The last call made.
LastCall == calls[Len(calls)]

\* The place of key k in the order of last uses (0 when it is not in it).
UsePos(k) ==
    IF \E i \in 1..Len(recency) : recency[i] = k
    THEN CHOOSE i \in 1..Len(recency) : recency[i] = k
    ELSE 0

\* C14: after any sequence of Put, Get and Clear calls, currentSize equals
\* the sum of Size over all entries in the map, also after an overwrite and
\* after Put of an object that Get returned and the caller modified.
C14_SizeIsSumOfEntries ==
    ~lruCache.hung => lruCache.currentSize = SumOfSizes(StoredKeys)

\* C15: with maxEntries >= 1 the number of entries in the map never exceeds
\* maxEntries, after any sequence of calls.
C15_AtMostMaxEntries ==
    Cardinality(StoredKeys) <= lruCache.maxEntries

\* A full cache (maxEntries 2) took a third key and holds two entries.
C15_Witness ==
    /\ lruCache.maxEntries = 2
    /\ nCalls >= 3
    /\ LastCall.op = "Put"
    /\ ~lruCache.hung
    /\ Cardinality(StoredKeys) = 2
    /\ \E k \in CacheKeys \ StoredKeys : UsePos(k) = 0 /\ k # LastCall.key
    /\ LastCall.key \notin { calls[1].key }

\* C16: currentSize never exceeds maxSize, for entries of every size, a
\* single entry larger than maxSize included.
C16_SizeAtMostMax ==
    lruCache.currentSize <= lruCache.maxSize

\* C17: after every completed Put, Get or Clear the access order is a
\* permutation of the key set of the map: every stored key once, no other.
C17_OrderIsPermutation ==
    ~lruCache.hung =>
        /\ Len(lruCache.accessOrder) = Cardinality(StoredKeys)
        /\ { lruCache.accessOrder[i] : i \in 1..Len(lruCache.accessOrder) } = StoredKeys

\* A Get hit moved the older of two stored keys behind the newer one.
C17_Witness ==
    /\ calls # << >>
    /\ LastCall.op = "Get"
    /\ LastCall.found
    /\ LastCall.key = "K1"
    /\ lruCache.accessOrder = << "K2", "K1" >>

\* C18: whenever Put evicts, the evicted key is the least recently used one,
\* Put and Get hit both counting as a use (the Put under way is a use of its
\* key): every key the Put leaves in the map was used later than every key
\* it evicted, and the key being put is not evicted.
C18_VictimIsLeastRecentlyUsed ==
    [][ nCalls' = nCalls + 1 /\ calls'[Len(calls')].op = "Put" =>
          \A k \in StoredKeys \ DOMAIN lruCache'.entries :
              /\ k # calls'[Len(calls')].key
              /\ \A j \in (StoredKeys \cap DOMAIN lruCache'.entries) \ { calls'[Len(calls')].key } :
                    UsePos(k) < UsePos(j) ]_vars

\* maxEntries 2: Put K1, Put K2, Get K1, Put K3 evicted K2 and kept K1, K3.
C18_Witness ==
    /\ lruCache.maxEntries = 2
    /\ nCalls = 4
    /\ Len(calls) = 2
    /\ calls[1].op = "Get" /\ calls[1].key = "K1" /\ calls[1].found
    /\ calls[2].op = "Put" /\ calls[2].key = "K3"
    /\ StoredKeys = { "K1", "K3" }
    /\ recency = << "K1", "K3" >>

\* C19: in every cache state, for every key and entry, Put(key, entry)
\* followed at once by Get(key) returns found = true and that entry: in the
\* state a Put call leaves, the Put has returned and Get finds the entry.
C19_PutThenGetReturnsEntry ==
    calls # << >> /\ LastCall.op = "Put" =>
        /\ ~lruCache.hung
        /\ CacheGet(lruCache, heap, LastCall.key, nCalls + 1).found
        /\ CacheGet(lruCache, heap, LastCall.key, nCalls + 1).entry = LastCall.entry

\* C20: two Puts of different entries under the same key, serialized by the
\* mutex: afterwards the map holds for that key the entry of the later Put,
\* the key is once in the access order, and currentSize is that of the
\* entries held.
C20_LaterPutWins ==
    ( /\ Len(calls) = 2
      /\ calls[1].op = "Put" /\ calls[2].op = "Put"
      /\ calls[1].key = calls[2].key
      /\ calls[1].entry # calls[2].entry )
    =>
    ( /\ ~lruCache.hung
      /\ calls[2].key \in StoredKeys
      /\ lruCache.entries[calls[2].key] = calls[2].entry
      /\ Cardinality({ i \in 1..Len(lruCache.accessOrder) :
                          lruCache.accessOrder[i] = calls[2].key }) = 1
      /\ lruCache.currentSize = SumOfSizes(StoredKeys) )

\* The claims about the WorkerPool.

\* The connections whose handler is running.
Handling == { c \in DOMAIN conns : conns[c].st \in {"run", "log", "exit"} }

\* The step is a Submit of the accept loop: it returned, or it panicked.
IsSubmitStep ==
    /\ mainPc = "dispatch"
    /\ config.ConcurrencyModel = ThreadPool
    /\ \/ mainPc' = "select"
       \/ exit' = Panic("send on closed channel") /\ Running

\* C11: Submit never blocks; on a queue that holds 2N connections it closes
\* the connection, whose handler is never invoked, otherwise it enqueues the
\* connection and does not close it; the queue never holds more than 2N
\* connections and at most N handlers run at once. Checked under Spec.
C11_SubmitEnqueuesOrDrops ==
    /\ [](config.ConcurrencyModel = ThreadPool =>
             /\ Len(queue) <= QueueCap
             /\ Cardinality(Handling) <= config.ThreadPoolSize
             /\ \A c \in ConnIds : conns[c].st = "dropped" => conns[c].closed)
    /\ [][ IsSubmitStep =>
             IF Len(queue) = QueueCap
             THEN conns'[mainConn].st = "dropped" /\ queue' = queue
             ELSE /\ queue' = Append(queue, mainConn)
                  /\ conns'[mainConn].st = "queued"
                  /\ ~conns'[mainConn].closed ]_vars

\* Pool of size 1, four submits made, and every handler invoked so far is
\* still blocked in its read. Checked under SpecPool.
FourSubmitsBlockedHandler ==
    /\ config.ThreadPoolSize = 1
    /\ mainConn >= 4
    /\ \A c \in 1..4 : conns[c].st \in {"queued", "run", "dropped"}

\* A connection Submit accepted: queued, or handed to the handler.
Accepted(c) == conns[c].st \in {"queued", "run"} /\ ~conns[c].closed

\* A connection Submit closed; its handler was not invoked.
Dropped(c) == conns[c].st = "dropped" /\ conns[c].closed /\ conns[c].out = << >>

\* C12, as stated: with a pool of size 1 and a handler that blocks forever,
\* of four submits the first three are accepted and the 4th is closed
\* without handler invocation, in every scheduling of the worker.
C12_FourthSubmitDropped ==
    FourSubmitsBlockedHandler =>
        Accepted(1) /\ Accepted(2) /\ Accepted(3) /\ Dropped(4)

\* C12, amended: the first two are accepted; of the last two at least one is
\* closed without handler invocation, the 4th whenever the 3rd was accepted;
\* each of the four is either accepted or closed so, and one handler at most
\* has been invoked.
C12_ThirdOrFourthDropped ==
    FourSubmitsBlockedHandler =>
        /\ Accepted(1) /\ Accepted(2)
        /\ \A c \in {3, 4} : Accepted(c) \/ Dropped(c)
        /\ Accepted(3) => Dropped(4)
        /\ Cardinality({ c \in 1..4 : conns[c].st = "run" }) <= 1

\* The worker took the first connection before the third submit: the
\* handler is blocked on 1, the queue holds 2 and 3, the 4th was closed.
C12_Witness ==
    /\ FourSubmitsBlockedHandler
    /\ conns[1].st = "run"
    /\ queue = << 2, 3 >>
    /\ Dropped(4)

\* C13: WorkerPool.Shutdown returns only after all N workers have exited,
\* the handlers in flight run to completion first, and Shutdown returns: a
\* caller past wp.wg.Wait() finds every worker exited, and a call waiting
\* there is not cut short by a worker's panic. Checked under Spec.
C13_PoolShutdownWaitsAndReturns ==
    \A p \in {"sig", "main"} :
        /\ config.ConcurrencyModel = ThreadPool
           /\ sdPc[p] \in {"wg_wait", "logger_close", "returned"}
           => \A w \in DOMAIN workers : workers[w].pc = "exited"
        /\ sdPc[p] = "pool_wait" => exit # Panic("nil pointer dereference")

\* ------------------------------------------------------------------------
\* The claims about the filter are checked under SpecFilter.

\* The text after "*." of a wildcard rule.
WildcardRest(d) == SubSeq(d, 3, Len(d))

\* The host h is X, or ends with "." followed by X.
AtDotBoundary(h, X) == h = X \/ HasSuffix(h, <<".">> \o X)

\* The call of IsBlocked that a step has just recorded.
NewLookup == lookups'[Len(lookups')]

\* C21: for a stored wildcard rule *.X, a call of IsBlocked returns that rule
\* only for a host that (trimmed and lowercased) is X or ends with ".X";
\* every such host is reported blocked, and by that very rule when no other
\* stored rule matches it. A host that ends with X without the dot before it
\* is not matched by the rule.
C21_WildcardMatchesAtDotBoundary ==
    [][ lookups' # lookups /\ lookups' # << >> =>
          LET h == ToLower(TrimSpace(NewLookup.host))
          IN  \A d \in blockedDomains :
                HasPrefix(d, WildcardPrefix) =>
                  /\ NewLookup.blocked /\ NewLookup.rule = d
                        => AtDotBoundary(h, WildcardRest(d))
                  /\ AtDotBoundary(h, WildcardRest(d)) => NewLookup.blocked
                  /\ ( /\ AtDotBoundary(h, WildcardRest(d))
                       /\ \A e \in (blockedDomains \cup blockedIPs) \ {d} :
                             ~RuleMatches(e, h) )
                        => NewLookup.rule = d ]_vars

\* With only *.m.t stored, xm.t was reported not blocked and then m.t was
\* reported blocked by *.m.t.
C21_Witness ==
    /\ blockedDomains = { WildMT }
    /\ Len(lookups) = 2
    /\ lookups[1] = [host |-> HostXMT, blocked |-> FALSE, rule |-> << >>]
    /\ lookups[2] = [host |-> HostMT, blocked |-> TRUE, rule |-> WildMT]

\* The last LoadRules call read its file to the end.
LoadedInFull ==
    /\ lastLoad.called
    /\ lastLoad.file.exists
    /\ lastLoad.file.readable
    /\ ~lastLoad.err

\* C22: two calls of IsBlocked on the same host, made while the same rule
\* file has been loaded in full once or more often, return the same boolean
\* and the same rule.
C22_SameFileSameAnswers ==
    LoadedInFull =>
        \A i, j \in DOMAIN lookups :
            lookups[i].host = lookups[j].host
            => /\ lookups[i].blocked = lookups[j].blocked
               /\ lookups[i].rule = lookups[j].rule

\* C23: after LoadRules on a path where no file is, no error was returned
\* and the filter holds no rule.
C23_MissingFileEmptiesRules ==
    lastLoad.called /\ ~lastLoad.file.exists =>
        /\ ~lastLoad.err
        /\ blockedDomains = {}
        /\ blockedIPs = {}

\* ------------------------------------------------------------------------
\* The claims about CONNECT tunnels are checked under SpecTunnel.

\* The status lines HandleCONNECT has written to the client.
ConnectCodes == { tunnel.out[i].code : i \in { j \in DOMAIN tunnel.out :
                                                  tunnel.out[j].kind = "connect" } }

\* The tunnel bytes relayed so far, both directions.
RelayedBytes ==
    tunnel.toUp + Cardinality({ j \in DOMAIN tunnel.out : tunnel.out[j].kind = "relay" })

\* C24: the 200 line is written only when the upstream dial succeeded, at
\* most once, and is the first thing the client gets: no tunnel byte is
\* relayed in either direction before it. When the dial failed the client
\* gets the 502 line and nothing else, and no byte is relayed. The client
\* never gets both lines.
C24_ReplyAfterDialBeforeRelay ==
    /\ 200 \in ConnectCodes =>
          tunnel.dialed = "ok" /\ tunnel.out[1] = ConnectWrite(200)
    /\ \A j \in DOMAIN tunnel.out : j > 1 => tunnel.out[j].kind = "relay"
    /\ RelayedBytes > 0 => tunnel.out # << >> /\ tunnel.out[1] = ConnectWrite(200)
    /\ tunnel.dialed = "failed" =>
          /\ tunnel.out \in { << >>, << ConnectWrite(502) >> }
          /\ RelayedBytes = 0
    /\ 502 \in ConnectCodes => tunnel.dialed = "failed"
    /\ ~({200, 502} \subseteq ConnectCodes)

\* A tunnel that got its 200 and then relayed bytes in both directions.
C24_Witness ==
    /\ tunnel.dialed = "ok"
    /\ Len(tunnel.out) >= 2
    /\ tunnel.out[1] = ConnectWrite(200)
    /\ tunnel.out[2] = RelayWrite(TunnelByte)
    /\ tunnel.toUp > 0

\* HandleCONNECT has returned.
TunnelReturned == tunnel.pc \in {"returned", "logged", "done"}

\* The copy goroutines were started.
CopiesStarted == \A d \in {"c2u", "u2c"} : tunnel.copy[d] # "idle"

RECURSIVE Flatten(_)
\* The bytes of a sequence of chunks, in order.
Flatten(chunks) ==
    IF chunks = << >> THEN << >> ELSE Head(chunks) \o Flatten(Tail(chunks))

\* The upstream sent a complete response and then closed: a status line,
\* header lines, a blank line, any body, then EOF.
CompleteResponse(up) ==
    /\ up.end = "eof"
    /\ up.stream # << >>
    /\ \E b \in 2..Len(up.stream) :
          /\ up.stream[b] \in { <<"\r", "\n">>, <<"\n">> }
          /\ \A i \in 1..b : IsLine(up.stream[i])

\* The bytes the client was sent, in order.
ClientBytes == Flatten([i \in DOMAIN relay.out |-> relay.out[i].data])

\* C26: when the upstream sent a complete response and closed, and no write
\* to the client failed, the bytes the client was sent are the bytes of the
\* upstream, in order, nothing added or left out, however the body came in
\* pieces and however little each client write took; one record is logged,
\* ALLOWED, and its bytes-downstream is the number of those bytes.
C26_RelayedBytesEqualUpstream ==
    relay.pc = "done" /\ CompleteResponse(relay.up) /\ relay.up.clientFailAt = 0
    => /\ \A i \in DOMAIN relay.out : relay.out[i].kind = "relay"
       /\ ClientBytes = Flatten(relay.up.stream)
       /\ Len(relay.logged) = 1
       /\ relay.logged[1].Action = "ALLOWED"
       /\ relay.logged[1].BytesDown = Len(Flatten(relay.up.stream))

\* A complete response whose body came in three pieces was relayed through
\* client writes that took one byte each.
C26_Witness ==
    /\ relay.pc = "done"
    /\ CompleteResponse(relay.up)
    /\ relay.up.clientFailAt = 0
    /\ relay.up.cut = 1
    /\ Len(relay.up.stream) = 6
    /\ Len(relay.out) = Len(Flatten(relay.up.stream))
    /\ ClientBytes = Flatten(relay.up.stream)

\* ------------------------------------------------------------------------
\* The claims about the parser are checked under SpecHandler, on the request
\* the handler parsed.

\* C27: every request the parser accepted has a port from 1 to 65535, and a
\* request it refused was answered 400.
C27_ParsedPortInRange ==
    \A c \in ConnIds :
        conns[c].st \in {"log", "exit", "done"} =>
            IF Req(c).ok THEN Req(c).Port \in 1..65535
            ELSE conns[c].out = << ErrorWrite(400) >>

\* The request was forwarded: SerializeRequest was called on it.
Forwarded(c) ==
    /\ conns[c].st \in {"log", "exit", "done"}
    /\ Req(c).ok
    /\ ~Req(c).IsConnect
    /\ conns[c].dials = 1

\* C28: for every absolute-form GET that was parsed and forwarded, parsing
\* what SerializeRequest built succeeds and gives the same method, the path
\* and query of the original target in origin-form, and the same headers.
C28_SerializeParseRoundTrip ==
    \A c \in ConnIds :
        Forwarded(c) /\ Req(c).Method = MethodGET /\ IsAbsoluteForm(Req(c).RequestTarget)
        => \A w \in SerializeRequest(Req(c)) :
              LET again == ParseHTTPRequest(w)
              IN  /\ again.ok
                  /\ again.Method = Req(c).Method
                  /\ again.RequestTarget = OriginForm(Req(c).RequestTarget)
                  /\ again.Headers = Req(c).Headers

\* ------------------------------------------------------------------------
\* The claims about the logger are checked under SpecLogger.

\* No caller is inside Log.
LoggerQuiet == logger.mu = 0 /\ \A p \in LogCallers : logger.callers[p].pc = "idle"

\* C29: while Close has not been called, whenever no Log call is under way
\* there is a file at the log path, it is the one the logger writes to, and
\* the tracked size is its size in bytes.
C29_TrackedSizeIsFileSize ==
    logger.pc = "open" /\ LoggerQuiet /\ ~logger.closeCalled =>
        /\ logger.atPath # 0
        /\ logger.handle.file = logger.atPath
        /\ ~logger.handle.closed
        /\ logger.currentSize = logger.sizes[logger.atPath]

\* C30: at most one caller is inside Log at a time, and whenever none is the
\* lines written are one for each call, in the order the calls locked the
\* mutex.
C30_OneLinePerCallInLockOrder ==
    /\ Cardinality({ p \in LogCallers : logger.callers[p].pc # "idle" }) <= 1
    /\ LoggerQuiet =>
          [i \in DOMAIN logger.written |-> logger.written[i].caller] = logger.acquired

\* ------------------------------------------------ the order of the checks

\* None of the error responses of the checks was written to c.
NoCheckResponse(c) ==
    \A i \in 1..Len(conns[c].out) :
        conns[c].out[i] \notin { ErrorWrite(400), ErrorWrite(407), ErrorWrite(501),
                                 ErrorWrite(403) }

\* The one record c's handler logged.
RecordOf(c) == LinesOf(c)[1].entry

\* C31: the handler applies its checks in the order parse, authentication,
\* CONNECT enabled, block-list, cache lookup, forward, and the first check
\* that fails decides the response and the log action alone: 400 ERROR, 407
\* AUTH_FAILED without a rule of the filter, 501 BLOCKED, 403 BLOCKED, the
\* cached response with CACHE_HIT, and only past all of them an upstream dial.
C31_FirstFailingCheckDecides ==
    \A c \in ConnIds :
        Logged(c) =>
            IF ~Req(c).ok
            THEN AnsweredAndLogged(c, 400, "ERROR") /\ conns[c].dials = 0
            ELSE IF AuthFails(config, Req(c))
            THEN /\ AnsweredAndLogged(c, 407, "AUTH_FAILED")
                 /\ RecordOf(c).Rule = << >>
                 /\ conns[c].dials = 0
            ELSE IF Req(c).IsConnect /\ ~config.EnableConnectTunnel
            THEN /\ AnsweredAndLogged(c, 501, "BLOCKED")
                 /\ RecordOf(c).Rule = RuleConnectDisabled
                 /\ conns[c].dials = 0
            ELSE IF HostOnBlockList(c)
            THEN Answered403(c)
            ELSE IF ~Req(c).IsConnect /\ CacheHit(config, cacheEntries, Req(c))
            THEN /\ Len(conns[c].out) = 1 /\ conns[c].out[1].kind = "cache"
                 /\ Len(LinesOf(c)) = 1 /\ RecordOf(c).Action = "CACHE_HIT"
                 /\ conns[c].dials = 0
            ELSE /\ conns[c].dials = 1
                 /\ NoCheckResponse(c)
                 /\ Len(LinesOf(c)) = 1
                 /\ RecordOf(c).Action \in {"ERROR", "ALLOWED"}

\* An unauthenticated request to a host on the block-list was answered 407
\* and logged AUTH_FAILED.
C31_Witness ==
    \E c \in ConnIds :
        /\ conns[c].st = "done"
        /\ Req(c).ok
        /\ ~Req(c).IsConnect
        /\ AuthFails(config, Req(c))
        /\ HostOnBlockList(c)
        /\ AnsweredAndLogged(c, 407, "AUTH_FAILED")

\* ------------------------------------------------------- Cache.Put ends

\* C32: Cache.Put terminates and releases the mutex in every cache state for
\* every key and entry: no call of Put is left spinning in its eviction loop.
C32_PutTerminates == ~lruCache.hung

\* ------------------------------------------- Put on a key that is present

\* The step is a Put that returned, on a key the map held, with the cache
\* within maxEntries and the new total size within maxSize.
IsOverwriteThatFits ==
    /\ nCalls' = nCalls + 1
    /\ calls'[Len(calls')].op = "Put"
    /\ ~lruCache'.hung
    /\ calls'[Len(calls')].key \in StoredKeys
    /\ Cardinality(StoredKeys) <= lruCache.maxEntries
    /\ lruCache.currentSize - heap[lruCache.entries[calls'[Len(calls')].key]].Size
         + EntrySize(heap[calls'[Len(calls')].entry]) <= lruCache.maxSize

\* C33: Put on a key that is already present replaces only that key's
\* entry: when the cache holds at most maxEntries entries and the new total
\* size fits under maxSize, every key present before the Put is present
\* after it.
C33_OverwriteKeepsOtherKeys ==
    [][ IsOverwriteThatFits => StoredKeys \subseteq DOMAIN lruCache'.entries ]_vars

\* ------------------------------------------- the pool and the shutdown
\* Checked under Spec.

\* C34: a pool worker calls the handler only with a connection that was
\* submitted: after Shutdown has closed the queue no worker receives the zero
\* value from it and calls the handler with a nil connection.
C34_NoNilConnectionHandled ==
    [][ \A w \in WorkerIds : ~WorkerTakeNil(w) ]_vars

\* C35: in thread_pool mode, in every interleaving of the accept loop with
\* Shutdown, Submit is never executed on the queue that WorkerPool.Shutdown
\* has closed.
C35_NoSubmitOnClosedQueue ==
    [][ ~(DispatchSubmit /\ queueClosed) ]_vars

\* No goroutine is left that would take a connection from the queue:
\* Shutdown has closed wp.shutdown and every worker has returned.
NoWorkerLeft ==
    /\ config.ConcurrencyModel = ThreadPool
    /\ wpShutdownClosed
    /\ \A w \in DOMAIN workers : workers[w].pc = "exited"

\* C36: every connection Accept returned is closed by the proxy in the end,
\* by Submit on a full queue or by its handler's exit, those still in the
\* queue at Shutdown included: once no worker is left to take it, no open
\* connection waits in the queue.
C36_AcceptedConnectionsClosed ==
    NoWorkerLeft => \A c \in ConnIds : conns[c].st = "queued" => conns[c].closed

\* ------------------------------------------------- a load that fails
\* Checked under SpecFilter.

\* C37: when LoadRules returns an error (the file cannot be opened for
\* another reason than absence, or reading fails part-way) the rule set in
\* effect before the call is in effect after it.
C37_FailedLoadKeepsRules ==
    [][ \A file \in RuleFiles :
          LoadRulesCall(file) /\ lastLoad'.err =>
              blockedDomains' = blockedDomains /\ blockedIPs' = blockedIPs ]_vars

\* ------------------------------------------- the bytes of the tunnel
\* Checked under SpecTunnel.

\* What follows the first blank line in the bytes w, which start at the
\* beginning of a line.
RECURSIVE AfterBlankLine(_)
AfterBlankLine(w) ==
    IF w = << >> THEN << >>
    ELSE IF HasPrefix(w, BlankLine) THEN SubSeq(w, 3, Len(w))
    ELSE IF IndexCh(w, "\n") = 0 THEN << >>
    ELSE AfterBlankLine(SubSeq(w, IndexCh(w, "\n") + 1, Len(w)))

\* The bytes delivered to the upstream so far.
UpstreamBytes ==
    SubSeq(tunnel.wire, tunnel.buffered + 1, tunnel.buffered + tunnel.toUp)

\* C38: in an established tunnel the bytes delivered to the upstream are
\* the bytes the client sent after the blank line that ends its CONNECT
\* request, in order: no header line is forwarded and no byte read into the
\* parser's buffer is lost.
C38_UpstreamGetsClientPayload ==
    HasPrefix(AfterBlankLine(tunnel.wire), UpstreamBytes)

\* ------------------------------------------------- the BLOCKED suffix
\* Checked under SpecHandler.

\* C39: a log line carries the "[BLOCKED: <rule>]" suffix only when its
\* action is BLOCKED: the records the handler writes with action ERROR,
\* ALLOWED, AUTH_FAILED or CACHE_HIT have an empty blocked-rule field.
C39_SuffixOnlyOnBlocked ==
    \A i \in DOMAIN logLines :
        HasBlockedSuffix(logLines[i].entry) => logLines[i].entry.Action = "BLOCKED"

\* --------------------------------------------- the end of the copies
\* Checked under SpecTunnelLive.

\* C40: both copy goroutines HandleCONNECT started terminate once
\* HandleCONNECT has returned and the handler has closed the client
\* connection: the slower one is not blocked for ever on its send to done or
\* on a read.
C40_BothCopiesEnd ==
    (tunnel.pc = "done" /\ CopiesStarted) ~> (\A d \in {"c2u", "u2c"} : tunnel.copy[d] = "done")

\* The handler has returned, both copies have ended, and the result of the
\* slower one sits in the buffer of done, which nobody receives from.
C40_Witness ==
    /\ tunnel.pc = "done"
    /\ tunnel.client = "closed"
    /\ \A d \in {"c2u", "u2c"} : tunnel.copy[d] = "done"
    /\ Len(tunnel.done) = 1

====
